---- MODULE Spec2Model ----
(***************************************************************************)
(* Assertion macros of the assertables crate as a state machine.           *)
(*                                                                         *)
(* One action per macro: the action expands the macro on operands drawn    *)
(* from small sets and records what the expansion did: the outcome (a      *)
(* Result for an _as_result form, a return or a panic for a panicking      *)
(* form), and the log of operand evaluations, process runs and reads in    *)
(* the order the expansion performs them.                                  *)
(*                                                                         *)
(* Text is modelled as TLC strings built by concatenation. The backtick of *)
(* the format strings is written as an apostrophe because a TLA+ string    *)
(* cannot hold a backtick; every other character is kept.                  *)
(***************************************************************************)
EXTENDS Integers, Sequences, FiniteSets, TLC

VARIABLES
    debug_assertions,   \* build configuration: cfg!(debug_assertions)
    readers,            \* the unread content of the reader variables a and b
    inv,                \* the macro invocation performed last, with the readers it started from
    out,                \* its outcome
    log,                \* its evaluation events, in order
    first,              \* the first invocation of the run: the readers it started with and its outcome
    calls               \* number of invocations performed in the run

vars == <<debug_assertions, readers, inv, out, log, first, calls>>

----------------------------------------------------------------------------
(* Bounds *)

MaxInt == 2         \* integer operands range over 1..MaxInt
MaxLen == 2         \* longest string operand or process output
MaxColl == 2        \* longest collection operand
MaxReaderLen == 1   \* longest content of a reader
MaxCalls == 2       \* invocations of the macro per run

Ints == 1..MaxInt

----------------------------------------------------------------------------
(* Strings are sequences of bytes; rendering maps them to text. *)

RECURSIVE SeqsUpTo(_, _)
SeqsUpTo(S, n) ==
    IF n = 0 THEN {<<>>}
    ELSE LET shorter == SeqsUpTo(S, n - 1)
         IN  shorter \cup {<<x>> \o s : x \in S, s \in {t \in shorter : Len(t) = n - 1}}

Letters == {97, 98}                 \* 'a', 'b'
Strings == SeqsUpTo(Letters, MaxLen)

Chr(b) ==
    CASE b = 97 -> "a"
      [] b = 98 -> "b"
      [] b = 109 -> "m"
      [] b = 34 -> "\""
      [] b >= 48 /\ b <= 57 -> ToString(b - 48)
      [] OTHER -> "?"

\* char::escape_debug as used by <str as Debug>::fmt
EscapeDebug(b) ==
    IF b = 34 THEN "\\\"" ELSE Chr(b)

RECURSIVE DisplayStr(_)
DisplayStr(s) == IF s = <<>> THEN "" ELSE Chr(Head(s)) \o DisplayStr(Tail(s))

RECURSIVE EscapeStr(_)
EscapeStr(s) == IF s = <<>> THEN "" ELSE EscapeDebug(Head(s)) \o EscapeStr(Tail(s))

DebugStr(s) == "\"" \o EscapeStr(s) \o "\""

RECURSIVE JoinInts(_)
JoinInts(v) ==
    IF v = <<>> THEN ""
    ELSE IF Len(v) = 1 THEN ToString(Head(v))
    ELSE ToString(Head(v)) \o ", " \o JoinInts(Tail(v))

DebugVec(v) == "[" \o JoinInts(v) \o "]"

\* Option, Result and Poll values are tagged tuples: <<"Some", 1>>, <<"None">>, ...
DebugVariant(x) ==
    IF Len(x) = 1 THEN x[1] ELSE x[1] \o "(" \o ToString(x[2]) \o ")"

----------------------------------------------------------------------------
(* Diagnostics: a sequence of segments <<prefix, value, suffix>>, one per  *)
(* piece of the format string; the text is their concatenation.            *)

RECURSIVE Format(_)
Format(segs) ==
    IF segs = <<>> THEN ""
    ELSE Head(segs)[1] \o Head(segs)[2] \o Head(segs)[3] \o Format(Tail(segs))

HeadLine(form) == <<"assertion failed: '", form, "'\n">>
UrlLine(url) == <<"", url, "\n">>
Line(label, value) == <<label \o ": '", value, "',\n">>
LineNoComma(label, value) == <<label \o ": '", value, "'\n">>
LastLine(label, value) == <<label \o ": '", value, "'">>

\* Results of an expansion.
Ok(payload, l) == [kind |-> "Ok", payload |-> payload, text |-> "", segs |-> <<>>, log |-> l]
Err(segs, l) == [kind |-> "Err", payload |-> <<>>, text |-> Format(segs), segs |-> segs, log |-> l]
ErrMsg(text, l) == [kind |-> "Err", payload |-> <<>>, text |-> text, segs |-> <<>>, log |-> l]
Return(payload, l) == [kind |-> "Return", payload |-> payload, text |-> "", segs |-> <<>>, log |-> l]
Panic(text, segs, l) == [kind |-> "Panic", payload |-> <<>>, text |-> text, segs |-> segs, log |-> l]
Skipped == [kind |-> "Skipped", payload |-> <<>>, text |-> "", segs |-> <<>>, log |-> <<>>]
Unresolved(path) == [kind |-> "Unresolved", payload |-> <<>>, text |-> path, segs |-> <<>>, log |-> <<>>]

\* Evaluation events.
Eval(operand) == <<"eval", operand>>
Read(operand) == <<"read", operand>>

\* A custom message is absent, <<>>, or present, <<m>>, m a string.
Messages == {<<109>>, <<109, 34>>}          \* "m" and "m\""
MsgOpt == {<<>>} \cup {<<m>> : m \in Messages}

\* panic!("{}", x): the payload displays x.   panic!("{:?}", x): it debug-prints x.
PanicDisplay(r, msg) == Panic(DisplayStr(msg), <<>>, r.log \o <<Eval("message")>>)
PanicDebug(msg, l) == Panic(DebugStr(msg), <<>>, l \o <<Eval("message")>>)

OptionVals == {<<"None">>} \cup {<<"Some", n>> : n \in Ints}
ResultVals == {<<"Ok", n>> : n \in Ints} \cup {<<"Err", n>> : n \in Ints}
PollVals == {<<"Pending">>} \cup {<<"Ready", n>> : n \in Ints}

----------------------------------------------------------------------------
(* Helpers shared by the expansions *)

\* An integer operand expression: its k-th evaluation yields v + step * (k - 1).
\* step = 0 is a literal or a variable, step = 1 an expression such as a
\* call of a counter.  The count k restarts with each invocation.
IntExprs == [v : Ints, step : {0, 1}]
ValAt(e, k) == e.v + e.step * (k - 1)

Range(s) == {s[i] : i \in DOMAIN s}
Colls == SeqsUpTo(Ints, MaxColl)

\* <[T] as PartialOrd>::lt, the lexicographic order of Vec<u8> and String
RECURSIVE LexLt(_, _)
LexLt(x, y) ==
    IF y = <<>> THEN FALSE
    ELSE IF x = <<>> THEN TRUE
    ELSE IF Head(x) # Head(y) THEN Head(x) < Head(y)
    ELSE LexLt(Tail(x), Tail(y))

\* str::contains with a string pattern; Regex::is_match of a literal pattern
Contains(hay, needle) ==
    \E i \in 0..(Len(hay) - Len(needle)) :
        \A j \in 1..Len(needle) : hay[i + j] = needle[j]

\* An escalation that debug-prints the diagnostic: panic!("{:?}", err)
EscalateUnit_debug_printed(r, msg) ==
    IF r.kind = "Ok" THEN Return(<<>>, r.log)
    ELSE IF r.kind = "Panic" THEN r
    ELSE IF msg = <<>> THEN Panic("\"" \o r.text \o "\"", r.segs, r.log)
    ELSE PanicDisplay(r, msg[1])

\* match r { Ok(()) => (), Err(err) => panic!("{}", err) } and the arm with a message
EscalateUnit(r, msg) ==
    IF r.kind = "Ok" THEN Return(<<>>, r.log)
    ELSE IF r.kind = "Panic" THEN r
    ELSE IF msg = <<>> THEN Panic(r.text, r.segs, r.log) ELSE PanicDisplay(r, msg[1])

\* An escalation that drops the payload: Ok(_) => ()
EscalatePayload_dropped(r, msg) ==
    IF r.kind = "Ok" THEN Return(<<>>, r.log)
    ELSE IF r.kind = "Panic" THEN r
    ELSE IF msg = <<>> THEN Panic(r.text, r.segs, r.log) ELSE PanicDisplay(r, msg[1])

\* match r { Ok(x) => x, Err(err) => panic!("{}", err) } and the arm with a message
EscalatePayload(r, msg) ==
    IF r.kind = "Ok" THEN Return(r.payload, r.log)
    ELSE IF r.kind = "Panic" THEN r
    ELSE IF msg = <<>> THEN Panic(r.text, r.segs, r.log) ELSE PanicDisplay(r, msg[1])

\* A gate that lets the check run in every build configuration.
DebugGate_ungated(dbg, r) ==
    IF r.kind = "Return" THEN Return(<<>>, r.log) ELSE r

\* if cfg!(debug_assertions) { assert_x!(args); }
DebugGate(dbg, r) ==
    IF dbg THEN (IF r.kind = "Return" THEN Return(<<>>, r.log) ELSE r)
    ELSE Skipped

----------------------------------------------------------------------------
(* assert_err *)

assert_err_as_result(a) ==
    LET l == <<Eval("a")>> IN
    IF a[1] = "Err"
    THEN Ok(<<>>, l)
    ELSE Err(<<HeadLine("assert_err!(a)"),
               UrlLine("https://docs.rs/assertables/8.10.1/assertables/macro.assert_err.html"),
               Line(" a label", "a"),
               LastLine(" a debug", DebugVariant(a))>>, l)

----------------------------------------------------------------------------
(* assert_err_eq_x *)

assert_err_eq_x_as_result(a, b) ==
    IF a[1] = "Err"
    THEN IF a[2] = ValAt(b, 1)
         THEN Ok(<<a[2]>>, <<Eval("a"), Eval("b")>>)
         ELSE Err(<<HeadLine("assert_err_eq_x!(a, b)"),
                    UrlLine("https://docs.rs/assertables/9.2.0/assertables/macro.assert_err_eq_x.html"),
                    Line(" a label", "a"),
                    Line(" a debug", DebugVariant(a)),
                    Line(" a inner", ToString(a[2])),
                    Line(" b label", "b"),
                    LastLine(" b debug", ToString(ValAt(b, 2)))>>,
                  <<Eval("a"), Eval("b"), Eval("a"), Eval("b")>>)
    ELSE Err(<<HeadLine("assert_err_eq_x!(a, b)"),
               UrlLine("https://docs.rs/assertables/9.2.0/assertables/macro.assert_err_eq_x.html"),
               Line(" a label", "a"),
               Line(" a debug", DebugVariant(a)),
               Line(" b label", "b"),
               LastLine(" b debug", ToString(ValAt(b, 1)))>>,
             <<Eval("a"), Eval("a"), Eval("b")>>)

----------------------------------------------------------------------------
(* assert_result_ok *)

assert_result_ok_as_result(result) ==
    LET l == <<Eval("result")>> IN
    IF result[1] = "Ok"
    THEN Ok(<<>>, l)
    ELSE Err(<<HeadLine("assert_result_ok!(a)"),
               Line(" a label", "result"),
               LastLine(" a debug", DebugVariant(result))>>, l)

----------------------------------------------------------------------------
(* assert_eq *)

assert_eq_as_result(a, b) ==
    LET l == <<Eval("a"), Eval("b")>> IN
    IF a = b
    THEN Ok(<<>>, l)
    ELSE Err(<<HeadLine("assert_eq!(a, b)"),
               Line(" a label", "a"),
               Line(" a debug", ToString(a)),
               Line(" b label", "b"),
               LastLine(" b debug", ToString(b))>>, l)

----------------------------------------------------------------------------
(* assert_le: a panicking form with no _as_result form *)

assert_le(left, right, msg) ==
    LET l == <<Eval("left"), Eval("right")>> IN
    IF left <= right
    THEN Return(<<>>, l)
    ELSE IF msg = <<>>
         THEN LET segs == <<<<"assertion failed: 'assert_le(left, right)'\n  left: '", ToString(left), "'\n">>,
                            LastLine(" right", ToString(right))>>
              IN  Panic(Format(segs), segs, l \o <<Eval("left"), Eval("right")>>)
         ELSE PanicDebug(msg[1], l)

----------------------------------------------------------------------------
(* assert_some_ne *)

\* A comparison of the operands themselves, variants included
assert_some_ne_as_result_of_operands(a, b) ==
    IF a # b THEN Ok(<<>>, <<Eval("a"), Eval("b")>>)
    ELSE Err(<<HeadLine("assert_some_ne!(a, b)")>>, <<Eval("a"), Eval("b")>>)

assert_some_ne_as_result(a, b) ==
    LET l == <<Eval("a"), Eval("b")>> IN
    IF a[1] = "Some" /\ b[1] = "Some"
    THEN IF a[2] # b[2]
         THEN Ok(<<>>, l)
         ELSE Err(<<HeadLine("assert_some_ne!(a, b)"),
                    UrlLine("https://docs.rs/assertables/8.13.0/assertables/macro.assert_some_ne.html"),
                    Line(" a label", "a"),
                    Line(" a debug", DebugVariant(a)),
                    Line(" a inner", ToString(a[2])),
                    Line(" b label", "b"),
                    Line(" b debug", DebugVariant(b)),
                    LastLine(" b inner", ToString(b[2]))>>, l)
    ELSE Err(<<HeadLine("assert_some_ne!(a, b)"),
               UrlLine("https://docs.rs/assertables/8.13.0/assertables/macro.assert_some_ne.html"),
               Line(" a label", "a"),
               Line(" a debug", DebugVariant(a)),
               Line(" b label", "b"),
               LastLine(" b debug", DebugVariant(b))>>, l)

----------------------------------------------------------------------------
(* assert_option_some_ne, assert_poll_ready_ne, assert_ok_ne_expr *)

assert_option_some_ne_as_result(a_option, b_option) ==
    LET l == <<Eval("a_option"), Eval("b_option")>>
        head == <<HeadLine("assert_option_some_ne!(a, b)"),
                  Line(" a label", "a"),
                  Line(" a debug", DebugVariant(a_option)),
                  Line(" b label", "b")>>
    IN
    IF a_option[1] # "Some" \/ b_option[1] # "Some"
    THEN Err(head \o <<LastLine(" b debug", DebugVariant(b_option))>>,
             l \o <<Eval("a_option"), Eval("b_option")>>)
    ELSE LET a == a_option[2]
             b == b_option[2]
         IN  IF a # b
             THEN Ok(<<>>, l)
             ELSE Err(head \o <<Line(" b debug", DebugVariant(b_option)),
                                Line("       a", ToString(a)),
                                LastLine("       b", ToString(b))>>,
                      l \o <<Eval("a_option"), Eval("b_option")>>)

assert_poll_ready_ne_as_result(a, b) ==
    LET l == <<Eval("a"), Eval("b")>>
        head == <<HeadLine("assert_poll_ready_ne!(a, b)"),
                  UrlLine("https://docs.rs/assertables/8.7.0/assertables/macro.assert_poll_ready_ne.html"),
                  Line(" a label", "a"),
                  Line(" a debug", DebugVariant(a))>>
    IN
    IF a[1] = "Ready" /\ b[1] = "Ready"
    THEN IF a[2] # b[2]
         THEN Ok(<<>>, l)
         ELSE Err(head \o <<Line(" a inner", ToString(a[2])),
                            Line(" b label", "b"),
                            Line(" b debug", DebugVariant(b)),
                            LastLine(" b inner", ToString(b[2]))>>, l)
    ELSE Err(head \o <<Line(" b label", "b"),
                       LastLine(" b debug", DebugVariant(b))>>, l \o <<Eval("b")>>)

assert_ok_ne_expr_as_result(a, b) ==
    LET l == <<Eval("a"), Eval("b")>>
        head == <<HeadLine("assert_ok_ne_expr!(a, b)"),
                  UrlLine("https://docs.rs/assertables/8.12.0/assertables/macro.assert_ok_ne_expr.html"),
                  Line(" a label", "a"),
                  Line(" a debug", DebugVariant(a))>>
    IN
    IF a[1] = "Ok"
    THEN IF a[2] # b
         THEN Ok(<<>>, l)
         ELSE Err(head \o <<Line(" a inner", ToString(a[2])),
                            Line(" b label", "b"),
                            LastLine(" b debug", ToString(b))>>, l)
    ELSE Err(head \o <<Line(" b label", "b"),
                       LastLine(" b debug", ToString(b))>>, l)

----------------------------------------------------------------------------
(* assert_ready_eq2 *)

\* A variant that renders one layout, inner lines included, for every failure.
assert_ready_eq2_as_result_one_layout(a, b) ==
    LET l == <<Eval("a"), Eval("b")>> IN
    IF a[1] = "Ready" /\ b[1] = "Ready" /\ a[2] = b[2]
    THEN Ok(<<a[2], b[2]>>, l)
    ELSE Err(<<HeadLine("assert_ready_eq2!(a, b)"),
               UrlLine("https://docs.rs/assertables/9.0.0/assertables/macro.assert_ready_eq2.html"),
               Line(" a label", "a"),
               Line(" a debug", DebugVariant(a)),
               Line(" a inner", IF a[1] = "Ready" THEN ToString(a[2]) ELSE ""),
               Line(" b label", "b"),
               Line(" b debug", DebugVariant(b)),
               LastLine(" b inner", IF b[1] = "Ready" THEN ToString(b[2]) ELSE "")>>, l)

\* A layout that shows the inner values after the lines of both operands
assert_ready_eq2_as_result_inner_last(a, b) ==
    LET l == <<Eval("a"), Eval("b")>>
        head == <<HeadLine("assert_ready_eq2!(a, b)"),
                  UrlLine("https://docs.rs/assertables/9.0.0/assertables/macro.assert_ready_eq2.html"),
                  Line(" a label", "a"),
                  Line(" a debug", DebugVariant(a)),
                  Line(" b label", "b")>>
    IN
    IF a[1] = "Ready" /\ b[1] = "Ready"
    THEN IF a[2] = b[2]
         THEN Ok(<<a[2], b[2]>>, l)
         ELSE Err(head \o <<Line(" b debug", DebugVariant(b)),
                            Line(" a inner", ToString(a[2])),
                            LastLine(" b inner", ToString(b[2]))>>, l)
    ELSE Err(head \o <<LastLine(" b debug", DebugVariant(b))>>, l)

assert_ready_eq2_as_result(a, b) ==
    LET l == <<Eval("a"), Eval("b")>> IN
    IF a[1] = "Ready" /\ b[1] = "Ready"
    THEN IF a[2] = b[2]
         THEN Ok(<<a[2], b[2]>>, l)
         ELSE Err(<<HeadLine("assert_ready_eq2!(a, b)"),
                    UrlLine("https://docs.rs/assertables/9.0.0/assertables/macro.assert_ready_eq2.html"),
                    Line(" a label", "a"),
                    Line(" a debug", DebugVariant(a)),
                    Line(" a inner", ToString(a[2])),
                    Line(" b label", "b"),
                    Line(" b debug", DebugVariant(b)),
                    LastLine(" b inner", ToString(b[2]))>>, l)
    ELSE Err(<<HeadLine("assert_ready_eq2!(a, b)"),
               UrlLine("https://docs.rs/assertables/9.0.0/assertables/macro.assert_ready_eq2.html"),
               Line(" a label", "a"),
               Line(" a debug", DebugVariant(a)),
               Line(" b label", "b"),
               LastLine(" b debug", DebugVariant(b))>>,
             l \o <<Eval("b")>>)

----------------------------------------------------------------------------
(* assert_len_ge_x *)

assert_len_ge_x_as_result(a, b) ==
    LET a_len == Len(a) IN
    IF a_len >= ValAt(b, 2)
    THEN Ok(<<a_len, ValAt(b, 3)>>, <<Eval("a"), Eval("b"), Eval("b"), Eval("b")>>)
    ELSE Err(<<HeadLine("assert_len_ge_x!(a, b)"),
               UrlLine("https://docs.rs/assertables/9.2.0/assertables/macro.assert_len_ge_x.html"),
               Line(" a label", "a"),
               Line(" a debug", DebugVec(a)),
               Line(" a.len()", ToString(a_len)),
               Line(" b label", "b"),
               LastLine(" b debug", ToString(ValAt(b, 1)))>>,
             <<Eval("a"), Eval("b"), Eval("b")>>)

----------------------------------------------------------------------------
(* assert_fn_le2: f and g are the functions of the tests, fn f(i) -> i *)

f(i) == i
g(i) == i

assert_fn_le2_as_result(a_param, b_param) ==
    LET a == f(ValAt(a_param, 2))
        b == g(ValAt(b_param, 2))
        l == <<Eval("a_param"), Eval("b_param"),
               Eval("a_param"), <<"call", "a_function">>, Eval("b_param"), <<"call", "b_function">>>>
    IN
    IF a <= b
    THEN Ok(<<a, b>>, l)
    ELSE Err(<<HeadLine("assert_fn_le2!(a_function, a_param, b_function, b_param)"),
               UrlLine("https://docs.rs/assertables/9.0.0/assertables/macro.assert_fn_le2.html"),
               Line(" a_function label", "f"),
               Line("    a_param label", "a"),
               Line("    a_param debug", ToString(ValAt(a_param, 1))),
               Line(" b_function label", "g"),
               Line("    b_param label", "b"),
               Line("    b_param debug", ToString(ValAt(b_param, 1))),
               Line("                a", ToString(a)),
               LastLine("                b", ToString(b))>>, l)

----------------------------------------------------------------------------
(* assert_fn_ok_ne: a function is given by the variant it returns, *)
(* fn f(i) -> Result<i8, i8> { Ok(i) } or { Err(i) }                *)

FnKinds == {"Ok", "Err"}
ApplyFn(kind, i) == <<kind, i>>

assert_fn_ok_ne_as_result(a_function, a_param, b_function, b_param) ==
    LET a_result == ApplyFn(a_function, ValAt(a_param, 2))
        b_result == ApplyFn(b_function, ValAt(b_param, 2))
        l == <<Eval("a_param"), Eval("b_param"),
               Eval("a_param"), <<"call", "a_function">>, Eval("b_param"), <<"call", "b_function">>>>
    IN
    IF a_result[1] # "Ok" \/ b_result[1] # "Ok"
    THEN Err(<<HeadLine("assert_fn_err_ne!(a_function, a_param, b_function, b_param)"),
               UrlLine("https://docs.rs/assertables/CARGO_PKG_VERSION/assertables/macro.assert_fn_err_ne.html"),
               Line(" a_function label", "f"),
               Line("    a_param label", "a"),
               Line("    a_param debug", ToString(ValAt(a_param, 1))),
               Line(" b_function label", "g"),
               Line("    b_param label", "b"),
               Line("    b_param debug", ToString(ValAt(b_param, 1))),
               Line("                a", DebugVariant(a_result)),
               LastLine("                b", DebugVariant(b_result))>>, l)
    ELSE IF a_result[2] # b_result[2]
         THEN Ok(<<>>, l)
         ELSE Err(<<HeadLine("assert_fn_ok_ne!(a_function, a_param, b_function, b_param)"),
                    UrlLine("https://docs.rs/assertables/CARGO_PKG_VERSION/assertables/macro.assert_fn_ok_ne.html"),
                    Line(" a_function label", "f"),
                    Line("    a_param label", "a"),
                    Line("    a_param debug", ToString(ValAt(a_param, 1))),
                    Line(" b_function label", "g"),
                    Line("    b_param label", "b"),
                    Line("    b_param debug", ToString(ValAt(b_param, 1))),
                    Line("                a", ToString(a_result[2])),
                    LastLine("                b", ToString(b_result[2]))>>, l)

----------------------------------------------------------------------------
(* assert_fn_ok_ge: a panicking form with no _as_result form; one function *)
(* is applied to both parameters                                           *)

assert_fn_ok_ge(function, left, right, msg) ==
    LET left_result == ApplyFn(function, left)
        right_result == ApplyFn(function, right)
        l == <<Eval("left"), <<"call", "function">>, Eval("right"), <<"call", "function">>>>
        head == <<"assertion failed: '", "assert_fn_ok_ge(fn, left, right)", "'\n">>
    IN
    IF left_result[1] # "Ok" \/ right_result[1] # "Ok"
    THEN IF msg = <<>>
         THEN LET segs == <<head,
                            LineNoComma("  left input", ToString(left)),
                            LineNoComma(" right input", ToString(right)),
                            LineNoComma("  left output is_ok()", IF left_result[1] = "Ok" THEN "true" ELSE "false"),
                            LastLine(" right output is_ok()", IF right_result[1] = "Ok" THEN "true" ELSE "false")>>
              IN  Panic(Format(segs), segs, l \o <<Eval("left"), Eval("right")>>)
         ELSE PanicDebug(msg[1], l)
    ELSE IF left_result[2] >= right_result[2]
         THEN Return(<<>>, l)
         ELSE IF msg = <<>>
              THEN LET segs == <<head,
                                 LineNoComma("  left input", ToString(left)),
                                 LineNoComma(" right input", ToString(right)),
                                 LineNoComma("  left output", ToString(left_result[2])),
                                 LastLine(" right output", ToString(right_result[2]))>>
                   IN  Panic(Format(segs), segs, l \o <<Eval("left"), Eval("right")>>)
              ELSE PanicDebug(msg[1], l)

----------------------------------------------------------------------------
(* Bags: assert_bag_eq2, assert_bag_superbag *)

\* The tally loop: for x in val.into_iter() { *bag.entry(x).or_insert(0) += 1 }
Tally(c) == [x \in Range(c) |-> Cardinality({i \in DOMAIN c : c[i] = x})]

\* The keys of a BTreeMap or BTreeSet in iteration order, ascending.
RECURSIVE Ascending(_)
Ascending(S) ==
    IF S = {} THEN <<>>
    ELSE LET m == CHOOSE x \in S : \A y \in S : x <= y
         IN  <<m>> \o Ascending(S \ {m})

RECURSIVE JoinEntries(_, _)
JoinEntries(keys, bag) ==
    IF keys = <<>> THEN ""
    ELSE LET e == ToString(Head(keys)) \o ": " \o ToString(bag[Head(keys)])
         IN  IF Len(keys) = 1 THEN e ELSE e \o ", " \o JoinEntries(Tail(keys), bag)

\* <BTreeMap as Debug>::fmt
DebugMap(bag) == "{" \o JoinEntries(Ascending(DOMAIN bag), bag) \o "}"

\* assert_bag_impl_prep!
assert_bag_impl_prep(c) == Tally(c)

\* A comparison of the bags' keys only
assert_bag_eq2_as_result_keys_only(a_collection, b_collection) ==
    LET a_bag == assert_bag_impl_prep(a_collection)
        b_bag == assert_bag_impl_prep(b_collection)
        l == <<Eval("a_collection"), Eval("b_collection")>>
    IN
    IF DOMAIN a_bag = DOMAIN b_bag
    THEN Ok(<<a_bag, b_bag>>, l)
    ELSE Err(<<HeadLine("assert_bag_eq2!(a_collection, b_collection)")>>, l)

assert_bag_eq2_as_result(a_collection, b_collection) ==
    LET a_bag == assert_bag_impl_prep(a_collection)
        b_bag == assert_bag_impl_prep(b_collection)
        l == <<Eval("a_collection"), Eval("b_collection")>>
    IN
    IF a_bag = b_bag
    THEN Ok(<<a_bag, b_bag>>, l)
    ELSE Err(<<HeadLine("assert_bag_eq2!(a_collection, b_collection)"),
               UrlLine("https://docs.rs/assertables/9.0.0/assertables/macro.assert_bag_eq2.html"),
               Line(" a label", "a"),
               Line(" a debug", DebugVec(a_collection)),
               Line(" b label", "b"),
               Line(" b debug", DebugVec(b_collection)),
               Line("   a bag", DebugMap(a_bag)),
               LastLine("   b bag", DebugMap(b_bag))>>, l)

\* A superbag check that passes over the keys of b that a lacks
assert_bag_superbag_as_result_common_keys(a, b) ==
    LET a_bag == Tally(a)
        b_bag == Tally(b)
        l == <<Eval("a"), Eval("b")>>
    IN
    IF \A i \in DOMAIN b : b[i] \in DOMAIN a_bag => a_bag[b[i]] >= b_bag[b[i]]
    THEN Ok(<<>>, l)
    ELSE Err(<<HeadLine("assert_bag_superbag!(a_bag, b_bag)")>>, l)

\* A comparison that wants more of every item of b in a
assert_bag_superbag_as_result_strict(a, b) ==
    LET a_bag == Tally(a)
        b_bag == Tally(b)
        l == <<Eval("a"), Eval("b")>>
    IN
    IF \A i \in DOMAIN b : b[i] \in DOMAIN a_bag /\ a_bag[b[i]] > b_bag[b[i]]
    THEN Ok(<<>>, l)
    ELSE Err(<<HeadLine("assert_bag_superbag!(a_bag, b_bag)")>>, l)

assert_bag_superbag_as_result(a, b) ==
    LET a_bag == Tally(a)
        b_bag == Tally(b)
        l == <<Eval("a"), Eval("b")>>
    IN
    IF \A i \in DOMAIN b :
           /\ b[i] \in DOMAIN a_bag
           /\ b[i] \in DOMAIN b_bag
           /\ a_bag[b[i]] >= b_bag[b[i]]
    THEN Ok(<<>>, l)
    ELSE Err(<<HeadLine("assert_bag_superbag!(a_bag, b_bag)"),
               Line(" a label", "a"),
               Line(" a debug", DebugVec(a)),
               Line(" b label", "b"),
               Line(" b debug", DebugVec(b)),
               Line("       a", DebugMap(a_bag)),
               LastLine("       b", DebugMap(b_bag))>>,
             l \o <<Eval("a"), Eval("b")>>)

----------------------------------------------------------------------------
(* assert_bag_ne: the diagnostic comes from msg_with_left_and_right! *)

\* msg_with_left_and_right!(prefix, name, left, right), as the tests show it:
\* "assertion failed: `assert_bag_ne!(left, right)`\n  left: `{1: 2}`,\n right: `{1: 2}`"
msg_with_left_and_right(prefix, name, left, right) ==
    <<<<prefix \o ": '", name \o "(left, right)", "'\n">>,
      Line("  left", left),
      LastLine(" right", right)>>

\* A diagnostic that shows the collections instead of their tallies
assert_bag_ne_as_result_without_tally(a, b) ==
    IF Tally(a) # Tally(b)
    THEN Ok(<<>>, <<Eval("a"), Eval("b")>>)
    ELSE Err(msg_with_left_and_right("assertion failed", "assert_bag_ne!",
                                     DebugVec(a), DebugVec(b)), <<Eval("a"), Eval("b")>>)

\* A comparison of the keys of the bags, without their counts
assert_bag_ne_as_result_keys_only(a, b) ==
    LET a_bag == Tally(a)
        b_bag == Tally(b)
        l == <<Eval("a"), Eval("b")>>
    IN
    IF DOMAIN a_bag # DOMAIN b_bag
    THEN Ok(<<>>, l)
    ELSE Err(msg_with_left_and_right("assertion failed", "assert_bag_ne!",
                                     DebugMap(a_bag), DebugMap(b_bag)), l)

assert_bag_ne_as_result(a, b) ==
    LET a_bag == Tally(a)
        b_bag == Tally(b)
        l == <<Eval("a"), Eval("b")>>
    IN
    IF a_bag # b_bag
    THEN Ok(<<>>, l)
    ELSE Err(msg_with_left_and_right("assertion failed", "assert_bag_ne!",
                                     DebugMap(a_bag), DebugMap(b_bag)), l)

----------------------------------------------------------------------------
(* assert_set_superset_other: collects BTreeSets, which print in ascending order *)

\* A superset check on the tallies, which counts repetitions
assert_set_superset_other_as_result_counting(a, b) ==
    IF \A x \in Range(b) : x \in Range(a) /\ Tally(a)[x] >= Tally(b)[x]
    THEN Ok(<<>>, <<Eval("a"), Eval("b")>>)
    ELSE Err(<<HeadLine("assert_set_superset_other!(left_set, right_set)")>>,
             <<Eval("a"), Eval("b")>>)

assert_set_superset_other_as_result(a, b) ==
    LET a_set == Range(a)
        b_set == Range(b)
        l == <<Eval("a"), Eval("b")>>
    IN
    IF b_set \subseteq a_set
    THEN Ok(<<>>, l)
    ELSE Err(<<HeadLine("assert_set_superset_other!(left_set, right_set)"),
               Line("  left_set label", "a"),
               Line("  left_set debug", DebugVec(a)),
               Line(" right_set label", "b"),
               Line(" right_set debug", DebugVec(b)),
               Line("            left", "{" \o JoinInts(Ascending(a_set)) \o "}"),
               LastLine("           right", "{" \o JoinInts(Ascending(b_set)) \o "}")>>,
             l \o <<Eval("a"), Eval("b")>>)

----------------------------------------------------------------------------
(* assertable_set_subset: a result-returning form that collects HashSets *)

assertable_set_subset(left, right, msg) ==
    LET left_set == Range(left)
        right_set == Range(right)
        l == <<Eval("left"), Eval("right")>>
    IN
    IF left_set \subseteq right_set
    THEN Ok(<<>>, l)
    ELSE IF msg = <<>>
         THEN Err(<<<<"assertable failed: 'assertable_set_subset!(left, right)'\n  left: '",
                      DebugVec(left), "',\n">>,
                    LastLine(" right", DebugVec(right))>>,
                  l \o <<Eval("left"), Eval("right")>>)
         ELSE ErrMsg(DisplayStr(msg[1]), l \o <<Eval("message")>>)

----------------------------------------------------------------------------
(* assure_bag_eq, assure_io_eq: forms that report the relation as a bool *)

\* A form that reports a failed relation as Err with the message
assure_bag_eq_reporting(left, right, msg) ==
    LET l == <<Eval("left"), Eval("right")>> IN
    IF Tally(left) = Tally(right)
    THEN Ok(<<"true">>, l)
    ELSE IF msg = <<>> THEN Ok(<<"false">>, l)
         ELSE ErrMsg(DisplayStr(msg[1]), l \o <<Eval("message")>>)

assure_bag_eq(left, right, msg) ==
    LET left_bag == Tally(left)
        right_bag == Tally(right)
        l == <<Eval("left"), Eval("right")>>
    IN
    IF left_bag = right_bag
    THEN Ok(<<"true">>, l)
    ELSE Ok(<<"false">>, l)

assure_io_eq(left, right, msg) ==
    LET l == <<Eval("left"), Eval("right")>> IN
    IF left = right
    THEN Ok(<<"true">>, l)
    ELSE Ok(<<"false">>, l)

----------------------------------------------------------------------------
(* assertable_ne: a result-returning form that takes a custom message *)

\* A form that drops its message and reports the generated diagnostic
assertable_ne_without_message(left, right, msg) ==
    LET l == <<Eval("left"), Eval("right")>> IN
    IF left # right
    THEN Ok(<<>>, l)
    ELSE Err(<<<<"assertable failed: '", "assertable_ne!(left, right)", "'\n">>,
               Line("  left", ToString(left)),
               LastLine(" right", ToString(right))>>,
             l \o <<Eval("left"), Eval("right")>>)

assertable_ne(left, right, msg) ==
    LET l == <<Eval("left"), Eval("right")>> IN
    IF left # right
    THEN Ok(<<>>, l)
    ELSE IF msg = <<>>
         THEN Err(<<<<"assertable failed: '", "assertable_ne!(left, right)", "'\n">>,
                    Line("  left", ToString(left)),
                    LastLine(" right", ToString(right))>>,
                  l \o <<Eval("left"), Eval("right")>>)
         ELSE ErrMsg(DisplayStr(msg[1]), l \o <<Eval("message")>>)

----------------------------------------------------------------------------
(* assume_fn_err_string_ge: the function is given by the variant it       *)
(* returns, fn f(i) -> Result<bool, String> { Err(format!("{:?}", i)) }   *)
(* or { Ok(true) }                                                        *)

\* format!("{:?}", i) of an integer, as bytes
RECURSIVE Decimal(_)
Decimal(n) == IF n < 10 THEN <<48 + n>> ELSE Decimal(n \div 10) \o <<48 + (n % 10)>>

ApplyFnErrString(kind, i) == IF kind = "Err" THEN <<"Err", Decimal(i)>> ELSE <<"Ok", "true">>

DebugBool(b) == IF b THEN "true" ELSE "false"

assume_fn_err_string_ge(function, left, right, msg) ==
    LET left_result == ApplyFnErrString(function, left)
        right_result == ApplyFnErrString(function, right)
        l == <<Eval("left"), <<"call", "function">>, Eval("right"), <<"call", "function">>>>
        head == <<"assumption failed: '", "assume_fn_err_string_ge(fn, left, right)", "'\n">>
    IN
    IF left_result[1] # "Err" \/ right_result[1] # "Err"
    THEN IF msg = <<>>
         THEN Err(<<head,
                    LineNoComma("  left input", ToString(left)),
                    LineNoComma(" right input", ToString(right)),
                    LineNoComma("  left output is_err()", DebugBool(left_result[1] = "Err")),
                    LastLine(" right output is_err()", DebugBool(right_result[1] = "Err"))>>,
                  l \o <<Eval("left"), Eval("right")>>)
         ELSE ErrMsg(DisplayStr(msg[1]), l \o <<Eval("message")>>)
    ELSE IF ~LexLt(left_result[2], right_result[2])
         THEN Ok(<<"true">>, l)
         ELSE IF msg = <<>>
              THEN Err(<<head,
                         LineNoComma("  left input", ToString(left)),
                         LineNoComma(" right input", ToString(right)),
                         LineNoComma("  left output", DebugStr(left_result[2])),
                         LastLine(" right output", DebugStr(right_result[2]))>>,
                       l \o <<Eval("left"), Eval("right")>>)
              ELSE ErrMsg(DisplayStr(msg[1]), l \o <<Eval("message")>>)

----------------------------------------------------------------------------
(* Processes. A command is a program and one argument; what it does when   *)
(* run is fixed by the program: the printf programs of the tests write     *)
(* their argument, bin/exit-with-arg exits with it, bin/missing cannot be  *)
(* spawned and bin/kill-self stands for a process ended by a signal.       *)

InvalidByte == 255                  \* 0xFF never occurs in UTF-8

Command(program, arg) == [program |-> program, arg |-> arg]

StdoutCommands ==
    {Command("bin/missing", <<>>)} \cup {Command("bin/printf-stdout", s) : s \in Strings \cup {<<InvalidByte>>}}
StderrCommands ==
    {Command("bin/missing", <<>>)} \cup {Command("bin/printf-stderr", s) : s \in Strings \cup {<<InvalidByte>>}}
StatusCommands ==
    {Command("bin/missing", <<>>), Command("bin/kill-self", <<>>)}
        \cup {Command("bin/exit-with-arg", <<48 + n>>) : n \in Ints}

Run(operand) == <<"run", operand>>

Utf8Valid(bytes) == \A i \in DOMAIN bytes : bytes[i] < 128

\* <OsStr as Debug>::fmt and the lossy rendering of Output streams
RECURSIVE EscapeBytes(_)
EscapeBytes(s) ==
    IF s = <<>> THEN ""
    ELSE (IF Head(s) = InvalidByte THEN "\\xFF"
          ELSE IF Head(s) >= 48 /\ Head(s) <= 57 THEN ToString(Head(s) - 48)
          ELSE EscapeDebug(Head(s))) \o EscapeBytes(Tail(s))

DebugOsStr(s) == "\"" \o EscapeBytes(s) \o "\""

\* <Command as Debug>::fmt
DebugCommand(c) ==
    IF c.program \in {"bin/printf-stdout", "bin/printf-stderr"}
    THEN "\"" \o c.program \o "\" \"%s\" " \o DebugOsStr(c.arg)
    ELSE IF c.program = "bin/exit-with-arg"
    THEN "\"" \o c.program \o "\" " \o DebugOsStr(c.arg)
    ELSE "\"" \o c.program \o "\""

DebugProgram(c) == "\"" \o c.program \o "\""

DebugArgs(c) ==
    IF c.program \in {"bin/printf-stdout", "bin/printf-stderr"}
    THEN "[\"%s\", " \o DebugOsStr(c.arg) \o "]"
    ELSE "[]"

ExitCode(c) ==
    IF c.program = "bin/exit-with-arg" THEN <<"Some", c.arg[1] - 48>>
    ELSE IF c.program = "bin/kill-self" THEN <<"None">>
    ELSE <<"Some", 0>>

\* Command::output
Output(c) ==
    IF c.program = "bin/missing" THEN <<"Err", "NotFound">>
    ELSE <<"Ok", [status |-> ExitCode(c),
                  stdout |-> IF c.program = "bin/printf-stdout" THEN c.arg ELSE <<>>,
                  stderr |-> IF c.program = "bin/printf-stderr" THEN c.arg ELSE <<>>]>>

\* Command::status
Status(c) ==
    IF c.program = "bin/missing" THEN <<"Err", "NotFound">>
    ELSE <<"Ok", ExitCode(c)>>

DebugIoError(e) ==
    IF e = "NotFound"
    THEN "Os { code: 2, kind: NotFound, message: \"No such file or directory\" }"
    ELSE "Custom { kind: InvalidData, error: \"stream did not contain valid UTF-8\" }"

DebugExitStatus(code) ==
    IF code[1] = "Some" THEN "ExitStatus(unix_wait_status(" \o ToString(code[2] * 256) \o "))"
    ELSE "ExitStatus(unix_wait_status(9))"

DebugStream(bytes) == IF Utf8Valid(bytes) THEN DebugStr(bytes) ELSE DebugVec(bytes)

\* A rendering that drops the error of a failed run.
DebugOutputResult_without_error(r) ==
    IF r[1] = "Err" THEN "Err"
    ELSE "Ok(Output { status: " \o DebugExitStatus(r[2].status)
             \o ", stdout: " \o DebugStream(r[2].stdout)
             \o ", stderr: " \o DebugStream(r[2].stderr) \o " })"

\* <Result<Output, io::Error> as Debug>::fmt
DebugOutputResult(r) ==
    IF r[1] = "Err" THEN "Err(" \o DebugIoError(r[2]) \o ")"
    ELSE "Ok(Output { status: " \o DebugExitStatus(r[2].status)
             \o ", stdout: " \o DebugStream(r[2].stdout)
             \o ", stderr: " \o DebugStream(r[2].stderr) \o " })"

DebugStatusResult(r) ==
    IF r[1] = "Err" THEN "Err(" \o DebugIoError(r[2]) \o ")"
    ELSE "Ok(" \o DebugExitStatus(r[2]) \o ")"

\* String::from_utf8(bytes).unwrap() on bytes that are not UTF-8
UnwrapPanic(bytes, l) ==
    Panic("called 'Result::unwrap()' on an 'Err' value: FromUtf8Error { bytes: "
              \o DebugVec(bytes) \o ", error: Utf8Error { valid_up_to: "
              \o ToString(Cardinality({i \in DOMAIN bytes : \A j \in 1..i : bytes[j] < 128})) \o ", error_len: Some(1) } }",
          <<>>, l)

----------------------------------------------------------------------------
(* assert_process_status_code_value_ge *)

assert_process_status_code_value_ge_as_result(a, b) ==
    LET a_status == Status(a)
        b_status == Status(b)
        l == <<Eval("a"), Run("a"), Eval("b"), Run("b"), Eval("a"), Eval("b")>>
        ok == <<Eval("a"), Run("a"), Eval("b"), Run("b")>>
        head == <<HeadLine("assert_process_status_code_value_ge!(a, b)"),
                  UrlLine("https://docs.rs/assertables/9.2.0/assertables/macro.assert_process_status_code_value_ge.html")>>
    IN
    IF a_status[1] = "Ok" /\ b_status[1] = "Ok"
    THEN LET a_code == a_status[2]
             b_code == b_status[2]
         IN  IF a_code[1] = "Some" /\ b_code[1] = "Some"
             THEN IF a_code[2] >= b_code[2]
                  THEN Ok(<<a_code[2], b_code[2]>>, ok)
                  ELSE Err(head \o
                           <<Line(" a label", "a"),
                             Line(" a debug", DebugCommand(a)),
                             Line(" a value", ToString(a_code[2])),
                             Line(" b label", "b"),
                             LineNoComma(" b debug", DebugCommand(b)),
                             LastLine(" b value", ToString(b_code[2]))>>, l)
             ELSE Err(head \o
                      <<Line(" a label", "a"),
                        Line(" a debug", DebugCommand(a)),
                        Line("  a code", DebugVariant(a_code)),
                        Line(" b label", "b"),
                        LineNoComma(" b debug", DebugCommand(b)),
                        LastLine("  b code", DebugVariant(b_code))>>, l)
    ELSE Err(head \o
             <<Line("  a label", "a"),
               Line("  a debug", DebugCommand(a)),
               Line(" a status", DebugStatusResult(a_status)),
               Line("  b label", "b"),
               LineNoComma("  b debug", DebugCommand(b)),
               LastLine(" b status", DebugStatusResult(b_status))>>, l)

----------------------------------------------------------------------------
(* assert_command_stderr_contains *)

assert_command_stderr_contains_as_result(command, containee) ==
    LET output == Output(command)
        run == <<Eval("containee"), Eval("command"), Run("command")>>
        head == <<HeadLine("assert_command_stderr_contains!(command, containee)"),
                  UrlLine("https://docs.rs/assertables/8.13.0/assertables/macro.assert_command_stderr_contains.html"),
                  Line("   command label", "a"),
                  Line("   command debug", DebugCommand(command)),
                  Line(" containee label", "b"),
                  Line(" containee debug", DebugStr(containee))>>
    IN
    IF output[1] = "Err"
    THEN Err(head \o <<LastLine("          output", DebugOutputResult(output))>>,
             run \o <<Eval("command")>>)
    ELSE IF ~Utf8Valid(output[2].stderr)
    THEN UnwrapPanic(output[2].stderr, run)
    ELSE LET string == output[2].stderr IN
         IF Contains(string, containee)
         THEN Ok(<<>>, run \o <<Eval("containee")>>)
         ELSE Err(head \o <<LastLine("          stderr", DebugStr(string))>>,
                  run \o <<Eval("containee"), Eval("command")>>)

----------------------------------------------------------------------------
(* assert_program_args_stderr_ge_expr *)

assert_program_args_stderr_ge_expr_as_result(a_command, b_expr) ==
    LET a_output == Output(a_command)
        run == <<Eval("a_program"), Eval("a_args"), Run("a_command")>>
        head == <<HeadLine("assert_program_args_stderr_ge_expr!(left_program, left_args, right_expr)"),
                  Line(" left_program label", "&program"),
                  Line(" left_program debug", DebugProgram(a_command)),
                  Line("    left_args label", "&args"),
                  Line("    left_args debug", DebugArgs(a_command)),
                  Line("   right_expr label", "s"),
                  Line("   right_expr debug", DebugStr(b_expr))>>
    IN
    IF a_output[1] = "Err"
    THEN Err(head \o <<LastLine("        left output", DebugOutputResult(a_output))>>,
             run \o <<Eval("a_program"), Eval("a_args"), Eval("b_expr")>>)
    ELSE IF ~Utf8Valid(a_output[2].stderr)
    THEN UnwrapPanic(a_output[2].stderr, run)
    ELSE LET a_string == a_output[2].stderr IN
         IF ~LexLt(a_string, b_expr)
         THEN Ok(<<>>, run \o <<Eval("b_expr")>>)
         ELSE Err(head \o <<Line("               left", DebugStr(a_string)),
                            LastLine("              right", DebugStr(b_expr))>>,
                  run \o <<Eval("b_expr"), Eval("a_program"), Eval("a_args"),
                           Eval("b_expr"), Eval("b_expr")>>)

----------------------------------------------------------------------------
(* assert_program_args_stdout_ge2: both commands are built and run by       *)
(* assert_program_args_impl_prep!, the byte vectors are compared with ge    *)

\* A comparison of the lengths of the outputs
assert_program_args_stdout_ge2_as_result_by_length(a_command, b_command) ==
    LET a == Output(a_command)
        b == Output(b_command)
        l == <<Eval("a_program"), Eval("a_args"), Eval("b_program"), Eval("b_args"),
               Run("a_command"), Run("b_command")>>
    IN
    IF a[1] = "Ok" /\ b[1] = "Ok" /\ Len(a[2].stdout) >= Len(b[2].stdout)
    THEN Ok(<<a[2].stdout, b[2].stdout>>, l)
    ELSE Err(<<HeadLine("assert_program_args_stdout_ge2!(a_program, a_args, b_program, b_args)")>>, l)

assert_program_args_stdout_ge2_as_result(a_command, b_command) ==
    LET a_output == Output(a_command)
        b_output == Output(b_command)
        l == <<Eval("a_program"), Eval("a_args"), Eval("b_program"), Eval("b_args"),
               Run("a_command"), Run("b_command")>>
        head == <<HeadLine("assert_program_args_stdout_ge2!(a_program, a_args, b_program, b_args)"),
                  UrlLine("https://docs.rs/assertables/9.0.0/assertables/macro.assert_program_args_stdout_ge2.html"),
                  Line(" a_program label", "&a_program"),
                  Line(" a_program debug", DebugProgram(a_command)),
                  Line("    a_args label", "&a_args"),
                  Line("    a_args debug", DebugArgs(a_command)),
                  Line(" b_program label", "&b_program"),
                  Line(" b_program debug", DebugProgram(b_command)),
                  Line("    b_args label", "&b_args"),
                  Line("    b_args debug", DebugArgs(b_command))>>
    IN
    IF a_output[1] = "Ok" /\ b_output[1] = "Ok"
    THEN LET a == a_output[2].stdout
             b == b_output[2].stdout
         IN  IF ~LexLt(a, b)
             THEN Ok(<<a, b>>, l)
             ELSE Err(head \o <<Line("               a", DebugVec(a)),
                                LastLine("               b", DebugVec(b))>>, l)
    ELSE Err(head \o <<Line("        a output", DebugOutputResult(a_output)),
                       LastLine("        b output", DebugOutputResult(b_output))>>, l)

----------------------------------------------------------------------------
(* assert_program_args_stdout_ge2: the panicking form.  The arm that takes *)
(* a message matches ($a_program, $a_args, $b_program, $($message)+) and   *)
(* transcribes $b_args, which it does not bind: with a message the         *)
(* invocation does not expand.                                             *)

assert_program_args_stdout_ge2(a_command, b_command, msg) ==
    IF msg = <<>>
    THEN EscalatePayload(assert_program_args_stdout_ge2_as_result(a_command, b_command), <<>>)
    ELSE Unresolved("$b_args")

----------------------------------------------------------------------------
(* assert_command_stdout_eq_expr *)

assert_command_stdout_eq_expr_as_result(a_command, b_expr) ==
    LET a_output == Output(a_command)
        run == <<Eval("a_command"), Run("a_command")>>
        head == <<HeadLine("assert_command_stdout_eq_expr!(a_command, b_expr)"),
                  Line(" a label", "a"),
                  Line(" a debug", DebugCommand(a_command)),
                  Line(" b label", "b"),
                  Line(" b debug", DebugStr(b_expr))>>
    IN
    IF a_output[1] = "Err"
    THEN Err(head \o <<LastLine(" a output", DebugOutputResult(a_output))>>,
             run \o <<Eval("a_command"), Eval("b_expr")>>)
    ELSE IF ~Utf8Valid(a_output[2].stdout)
    THEN UnwrapPanic(a_output[2].stdout, run)
    ELSE LET a_string == a_output[2].stdout IN
         IF a_string = b_expr
         THEN Ok(<<>>, run \o <<Eval("b_expr")>>)
         ELSE Err(head \o <<Line("       a", DebugStr(a_string)),
                            LastLine("       b", DebugStr(b_expr))>>,
                  run \o <<Eval("b_expr"), Eval("a_command"), Eval("b_expr"), Eval("b_expr")>>)

----------------------------------------------------------------------------
(* assert_command_stdout_eq_string: a panicking form with no _as_result form *)

assert_command_stdout_eq_string(command, string, msg) ==
    LET output == Output(command)
        run == <<Eval("command"), Run("command")>>
        head == <<<<"assertion failed: 'assert_command_stdout_eq_string!(command, string)'\n command program: '",
                    DebugProgram(command), "',\n">>,
                  Line(" string", DebugStr(string))>>
    IN
    IF output[1] = "Err"
    THEN IF msg = <<>>
         THEN LET segs == head \o <<<<" output: ", DebugOutputResult(output), "">>>>
              IN  Panic(Format(segs), segs, run \o <<Eval("command"), Eval("string")>>)
         ELSE PanicDebug(msg[1], run)
    ELSE IF ~Utf8Valid(output[2].stdout)
    THEN UnwrapPanic(output[2].stdout, run)
    ELSE LET actual == output[2].stdout
             expect == string
         IN  IF actual = expect
             THEN Return(<<>>, run \o <<Eval("string")>>)
             ELSE IF msg = <<>>
                  THEN LET segs == head \o <<LastLine(" stdout", DebugStr(actual))>>
                       IN  Panic(Format(segs), segs,
                                 run \o <<Eval("string"), Eval("command"), Eval("string")>>)
                  ELSE PanicDebug(msg[1], run \o <<Eval("string")>>)

----------------------------------------------------------------------------
(* assertable_command_stdout_eq_string: a result-returning form that takes *)
(* a custom message                                                        *)

assertable_command_stdout_eq_string(command, string, msg) ==
    LET output == Output(command)
        run == <<Eval("command"), Run("command")>>
        head == <<<<"assertable failed: '", "assertable_command_stdout_eq_string!(command, string)", "'\n">>,
                  Line(" command program", DebugProgram(command)),
                  Line(" string", DebugStr(string))>>
    IN
    IF output[1] = "Err"
    THEN IF msg = <<>>
         THEN Err(head \o <<<<" output: ", DebugOutputResult(output), "">>>>,
                  run \o <<Eval("command"), Eval("string")>>)
         ELSE ErrMsg(DisplayStr(msg[1]), run \o <<Eval("message")>>)
    ELSE IF ~Utf8Valid(output[2].stdout)
    THEN UnwrapPanic(output[2].stdout, run)
    ELSE LET actual == output[2].stdout
             expect == string
         IN  IF actual = expect
             THEN Ok(<<>>, run \o <<Eval("string")>>)
             ELSE IF msg = <<>>
                  THEN Err(head \o <<LastLine(" stdout", DebugStr(actual))>>,
                           run \o <<Eval("string"), Eval("command"), Eval("string")>>)
                  ELSE ErrMsg(DisplayStr(msg[1]), run \o <<Eval("string"), Eval("message")>>)

----------------------------------------------------------------------------
(* assert_command_stderr_eq2 *)

assert_command_stderr_eq2_as_result(a_command, b_command) ==
    LET a_output == Output(a_command)
        b_output == Output(b_command)
        run == <<Eval("a_command"), Run("a_command"), Eval("b_command"), Run("b_command")>>
        head == <<HeadLine("assert_command_stderr_eq2!(a_command, b_command)"),
                  UrlLine("https://docs.rs/assertables/9.0.0/assertables/macro.assert_command_stderr_eq2.html"),
                  Line(" a label", "a"),
                  Line(" a debug", DebugCommand(a_command)),
                  Line(" b label", "b"),
                  Line(" b debug", DebugCommand(b_command))>>
    IN
    IF a_output[1] = "Ok" /\ b_output[1] = "Ok"
    THEN LET a == a_output[2].stderr
             b == b_output[2].stderr
         IN  IF a = b
             THEN Ok(<<a, b>>, run)
             ELSE Err(head \o <<Line("       a", DebugVec(a)),
                                LastLine("       b", DebugVec(b))>>,
                      run \o <<Eval("a_command"), Eval("b_command")>>)
    ELSE Err(head \o <<Line("       a", DebugOutputResult(a_output)),
                       LastLine("       b", DebugOutputResult(b_output))>>,
             run \o <<Eval("a_command"), Eval("b_command")>>)

----------------------------------------------------------------------------
(* Files. The file system of the tests: alfa.txt and bravo.txt exist. *)

Paths == {"alfa.txt", "bravo.txt", "missing.txt"}

\* std::fs::read_to_string
fs_read_to_string(path) ==
    IF path = "alfa.txt" THEN <<"Ok", <<97>>>>
    ELSE IF path = "bravo.txt" THEN <<"Ok", <<98>>>>
    ELSE <<"Err", "NotFound">>

DebugPath(path) == "\"" \o path \o "\""

DebugStringResult(r) ==
    IF r[1] = "Err" THEN "Err(" \o DebugIoError(r[2]) \o ")"
    ELSE "Ok(" \o DebugStr(r[2]) \o ")"

assert_fs_read_to_string_gt_as_result(a_path, b_path) ==
    LET a_result == fs_read_to_string(a_path)
        b_result == fs_read_to_string(b_path)
        l == <<Eval("a_path"), Eval("b_path"), Read("a_path"), Read("b_path")>>
        head == <<HeadLine("assert_fs_read_to_string_gt!(a_path, b_path)"),
                  UrlLine("https://docs.rs/assertables/8.13.0/assertables/macro.assert_fs_read_to_string_gt.html"),
                  Line(" a_path label", "&a"),
                  Line(" a_path debug", DebugPath(a_path)),
                  Line(" b_path label", "&b"),
                  Line(" b_path debug", DebugPath(b_path))>>
    IN
    IF a_result[1] = "Ok" /\ b_result[1] = "Ok"
    THEN IF LexLt(b_result[2], a_result[2])
         THEN Ok(<<>>, l)
         ELSE Err(head \o <<Line("     a string", DebugStr(a_result[2])),
                            LastLine("     b string", DebugStr(b_result[2]))>>, l)
    ELSE Err(head \o <<Line("     a result", DebugStringResult(a_result)),
                       LastLine("     b result", DebugStringResult(b_result))>>, l)

\* The expansion names $crate::std::fs::read_to_string_gt!, which no crate defines.
assert_fs_read_to_string_gt2_as_result(a_path, b_path) ==
    LET a_result == fs_read_to_string(a_path)
        b_result == fs_read_to_string(b_path)
        l == <<Eval("a_path"), Eval("b_path"), Read("a_path"), Read("b_path")>>
        head == <<HeadLine("assert_fs_read_to_string_gt2!(a_path, b_path)"),
                  UrlLine("https://docs.rs/assertables/9.0.0/assertables/macro.assert_fs_read_to_string_gt2.html"),
                  Line(" a_path label", "&a"),
                  Line(" a_path debug", DebugPath(a_path)),
                  Line(" b_path label", "&b"),
                  Line(" b_path debug", DebugPath(b_path))>>
    IN
    IF a_result[1] = "Ok" /\ b_result[1] = "Ok"
    THEN IF LexLt(b_result[2], a_result[2])
         THEN Ok(<<a_result[2], b_result[2]>>, l)
         ELSE Err(head \o <<Line("     a string", DebugStr(a_result[2])),
                            LastLine("     b string", DebugStr(b_result[2]))>>, l)
    ELSE Err(head \o <<Line("     a result", DebugStringResult(a_result)),
                       LastLine("     b result", DebugStringResult(b_result))>>, l)

assert_fs_read_to_string_contains_as_result(path, containee) ==
    LET a_result == fs_read_to_string(path)
        run == <<Eval("path"), Read("path")>>
        head == <<HeadLine("assert_fs_read_to_string_contains!(path, containee)"),
                  Line("      path label", "&path"),
                  Line("      path debug", DebugPath(path)),
                  Line(" containee label", "&containee"),
                  Line(" containee debug", DebugStr(containee))>>
    IN
    IF a_result[1] = "Err"
    THEN Err(head \o <<LastLine("        path err", DebugIoError(a_result[2]))>>,
             run \o <<Eval("path"), Eval("containee")>>)
    ELSE LET a_string == a_result[2] IN
         IF Contains(a_string, containee)
         THEN Ok(<<>>, run \o <<Eval("containee")>>)
         ELSE Err(head \o <<Line("  read to string", DebugStr(a_string)),
                            LastLine("       containee", DebugStr(containee))>>,
                  run \o <<Eval("containee"), Eval("path"), Eval("containee"), Eval("containee")>>)

----------------------------------------------------------------------------
(* Readers. A reader variable holds its unread bytes; read_to_string takes *)
(* all of them when they are UTF-8 and fails, taking none, when not.       *)

ReaderStates == SeqsUpTo(Letters, MaxReaderLen) \cup {<<InvalidByte>>}
Patterns == SeqsUpTo(Letters, MaxReaderLen)

\* A read that leaves the content in the reader.
read_to_string_without_consuming(content) ==
    IF Utf8Valid(content)
    THEN [result |-> <<"Ok", Len(content)>>, string |-> content, rest |-> content]
    ELSE [result |-> <<"Err", "InvalidData">>, string |-> <<>>, rest |-> content]

\* <&[u8] as Read>::read_to_string
read_to_string(content) ==
    IF Utf8Valid(content)
    THEN [result |-> <<"Ok", Len(content)>>, string |-> content, rest |-> <<>>]
    ELSE [result |-> <<"Err", "InvalidData">>, string |-> <<>>, rest |-> content]

DebugSizeResult(r) ==
    IF r[1] = "Err" THEN "Err(" \o DebugIoError(r[2]) \o ")"
    ELSE "Ok(" \o ToString(r[2]) \o ")"

\* Readers that an expansion leaves as they were
ReadersAfter_untouched(rd, l) == rd

\* The readers after an expansion with log l that started with the readers rd.
ReadersAfter(rd, l) ==
    [x \in DOMAIN rd |->
        IF \E i \in DOMAIN l : l[i] = Read(x) THEN read_to_string(rd[x]).rest ELSE rd[x]]

assert_io_read_to_string_lt2_as_result(rd) ==
    LET a == read_to_string(rd.a)
        b == read_to_string(rd.b)
        l == <<Eval("a"), Read("a"), Eval("b"), Read("b"), Eval("a"), Eval("b")>>
        ok == <<Eval("a"), Read("a"), Eval("b"), Read("b")>>
        head == <<HeadLine("assert_io_read_to_string_lt2!(a_reader, b_reader)"),
                  UrlLine("https://docs.rs/assertables/9.0.0/assertables/macro.assert_io_read_to_string_lt2.html")>>
    IN
    IF a.result[1] = "Ok" /\ b.result[1] = "Ok"
    THEN IF LexLt(a.string, b.string)
         THEN Ok(<<a.string, b.string>>, ok)
         ELSE Err(head \o
                  <<Line(" a label", "a"),
                    Line(" a debug", DebugVec(a.rest)),
                    Line(" b label", "b"),
                    Line(" b debug", DebugVec(b.rest)),
                    Line("       a", DebugStr(a.string)),
                    LastLine("       b", DebugStr(b.string))>>, l)
    ELSE Err(head \o
             <<Line("  a label", "a"),
               Line("  a debug", DebugVec(a.rest)),
               Line("  b label", "b"),
               Line("  b debug", DebugVec(b.rest)),
               Line("        a", DebugSizeResult(a.result)),
               LastLine("        b", DebugSizeResult(b.result))>>, l)

assert_read_to_string_matches_as_result(rd, b_matcher) ==
    LET a == read_to_string(rd.a)
        run == <<Eval("a"), Read("a")>>
        head == <<HeadLine("assert_read_to_string_matches!(left_reader, right_matcher)"),
                  Line("   left_reader label", "reader"),
                  Line("   left_reader debug", DebugVec(a.rest)),
                  Line(" right_matcher label", "matcher"),
                  Line(" right_matcher debug", DisplayStr(b_matcher))>>
    IN
    IF a.result[1] = "Err"
    THEN Err(head \o <<LastLine("            left err", DebugIoError(a.result[2]))>>,
             run \o <<Eval("a"), Eval("b_matcher")>>)
    ELSE IF Contains(a.string, b_matcher)
         THEN Ok(<<>>, run \o <<Eval("b_matcher")>>)
         ELSE Err(head \o <<Line("                left", DebugStr(a.string)),
                            LastLine("               right", DisplayStr(b_matcher))>>,
                  run \o <<Eval("b_matcher"), Eval("a"), Eval("b_matcher"), Eval("b_matcher")>>)

----------------------------------------------------------------------------
(* assert_std_io_read_to_string_lt: a panicking form with no _as_result form *)

assert_std_io_read_to_string_lt(rd, msg) ==
    LET left == read_to_string(rd.a)
        right == read_to_string(rd.b)
        head == <<"assertion failed: '", "assert_std_io_read_to_string_lt!(left, right)", "'\n">>
        l1 == <<Eval("a"), Read("a")>>
        l2 == l1 \o <<Eval("b"), Read("b")>>
    IN
    IF left.result[1] = "Err"
    THEN IF msg = <<>>
         THEN LET segs == <<head, LastLine("  left read_to_string error", DebugIoError(left.result[2]))>>
              IN  Panic(Format(segs), segs, l1)
         ELSE PanicDebug(msg[1], l1)
    ELSE IF right.result[1] = "Err"
    THEN LET segs == <<head, LastLine(" right read_to_string error", DebugIoError(right.result[2]))>>
         IN  Panic(Format(segs), segs, l2)
    ELSE IF LexLt(left.string, right.string)
         THEN Return(<<>>, l2)
         ELSE IF msg = <<>>
              THEN LET segs == <<head, Line("  left", DebugStr(left.string)),
                                 LastLine(" right", DebugStr(right.string))>>
                   IN  Panic(Format(segs), segs, l2)
              ELSE PanicDebug(msg[1], l2)

----------------------------------------------------------------------------
(* The state machine. A run is one test: it starts in any build            *)
(* configuration, declares the readers its macro reads, invokes the macro  *)
(* and may invoke it again with the same operand expressions.              *)

NoInv == [family |-> "", form |-> "", args |-> <<>>, msg |-> <<>>, rd |-> <<>>]
NoOut == [kind |-> "", payload |-> <<>>, text |-> "", segs |-> <<>>]

Outcome(r) == [kind |-> r.kind, payload |-> r.payload, text |-> r.text, segs |-> r.segs]

\* The reader variables a macro's operands name: a test declares these.
Reads(family) ==
    IF family \in {"assert_io_read_to_string_lt2", "assert_std_io_read_to_string_lt"} THEN {"a", "b"}
    ELSE IF family = "assert_read_to_string_matches" THEN {"a"}
    ELSE {}

Callable(family, form) ==
    /\ DOMAIN readers = Reads(family)
    /\ inv = NoInv \/ (inv.family = family /\ inv.form = form)

\* The values an action draws an operand from: the domain S at the first
\* invocation; at a repeated one the recorded operand k (0: the message).
Again(S, k) ==
    IF inv = NoInv THEN S ELSE IF k = 0 THEN {inv.msg} ELSE {inv.args[k]}

\* An invocation of one macro: the whole expansion runs; its outcome and its
\* log replace those of the previous invocation and the readers it read are
\* consumed.
Invoke(family, form, args, msg, r) ==
    LET i == [family |-> family, form |-> form, args |-> args, msg |-> msg, rd |-> readers] IN
    /\ calls < MaxCalls
    /\ inv = NoInv \/ (inv.args = args /\ inv.msg = msg)
    /\ inv' = i
    /\ out' = Outcome(r)
    /\ log' = r.log
    /\ first' = IF inv = NoInv THEN <<[readers |-> readers, out |-> Outcome(r)]>> ELSE first
    /\ calls' = calls + 1
    /\ readers' = ReadersAfter(readers, r.log)
    /\ UNCHANGED debug_assertions

Init ==
    /\ debug_assertions \in BOOLEAN
    /\ \/ readers = <<>>
       \/ readers \in [a : ReaderStates]
       \/ readers \in [a : ReaderStates, b : ReaderStates]
    /\ inv = NoInv
    /\ out = NoOut
    /\ log = <<>>
    /\ first = <<>>
    /\ calls = 0

Do_assert_err_as_result ==
    /\ Callable("assert_err", "as_result")
    /\ \E a \in Again(ResultVals, 1) :
        Invoke("assert_err", "as_result", <<a>>, <<>>, assert_err_as_result(a))

Do_assert_err ==
    /\ Callable("assert_err", "assert")
    /\ \E a \in Again(ResultVals, 1), m \in Again(MsgOpt, 0) :
        Invoke("assert_err", "assert", <<a>>, m, EscalateUnit(assert_err_as_result(a), m))

Do_debug_assert_err ==
    /\ Callable("assert_err", "debug")
    /\ \E a \in Again(ResultVals, 1), m \in Again(MsgOpt, 0) :
        Invoke("assert_err", "debug", <<a>>, m, DebugGate(debug_assertions, EscalateUnit(assert_err_as_result(a), m)))

Do_assert_err_eq_x_as_result ==
    /\ Callable("assert_err_eq_x", "as_result")
    /\ \E a \in Again(ResultVals, 1), b \in Again(IntExprs, 2) :
        Invoke("assert_err_eq_x", "as_result", <<a, b>>, <<>>, assert_err_eq_x_as_result(a, b))

Do_assert_err_eq_x ==
    /\ Callable("assert_err_eq_x", "assert")
    /\ \E a \in Again(ResultVals, 1), b \in Again(IntExprs, 2), m \in Again(MsgOpt, 0) :
        Invoke("assert_err_eq_x", "assert", <<a, b>>, m, EscalatePayload(assert_err_eq_x_as_result(a, b), m))

Do_debug_assert_err_eq_x ==
    /\ Callable("assert_err_eq_x", "debug")
    /\ \E a \in Again(ResultVals, 1), b \in Again(IntExprs, 2), m \in Again(MsgOpt, 0) :
        Invoke("assert_err_eq_x", "debug", <<a, b>>, m,
               DebugGate(debug_assertions, EscalatePayload(assert_err_eq_x_as_result(a, b), m)))

Do_assert_result_ok_as_result ==
    /\ Callable("assert_result_ok", "as_result")
    /\ \E a \in Again(ResultVals, 1) :
        Invoke("assert_result_ok", "as_result", <<a>>, <<>>, assert_result_ok_as_result(a))

Do_assert_result_ok ==
    /\ Callable("assert_result_ok", "assert")
    /\ \E a \in Again(ResultVals, 1), m \in Again(MsgOpt, 0) :
        Invoke("assert_result_ok", "assert", <<a>>, m, EscalateUnit(assert_result_ok_as_result(a), m))

Do_debug_assert_result_ok ==
    /\ Callable("assert_result_ok", "debug")
    /\ \E a \in Again(ResultVals, 1), m \in Again(MsgOpt, 0) :
        Invoke("assert_result_ok", "debug", <<a>>, m,
               DebugGate(debug_assertions, EscalateUnit(assert_result_ok_as_result(a), m)))

Do_assert_eq_as_result ==
    /\ Callable("assert_eq", "as_result")
    /\ \E a \in Again(Ints, 1), b \in Again(Ints, 2) :
        Invoke("assert_eq", "as_result", <<a, b>>, <<>>, assert_eq_as_result(a, b))

Do_assert_le ==
    /\ Callable("assert_le", "assert")
    /\ \E a \in Again(Ints, 1), b \in Again(Ints, 2), m \in Again(MsgOpt, 0) :
        Invoke("assert_le", "assert", <<a, b>>, m, assert_le(a, b, m))

Do_assert_some_ne_as_result ==
    /\ Callable("assert_some_ne", "as_result")
    /\ \E a \in Again(OptionVals, 1), b \in Again(OptionVals, 2) :
        Invoke("assert_some_ne", "as_result", <<a, b>>, <<>>, assert_some_ne_as_result(a, b))

Do_assert_some_ne ==
    /\ Callable("assert_some_ne", "assert")
    /\ \E a \in Again(OptionVals, 1), b \in Again(OptionVals, 2), m \in Again(MsgOpt, 0) :
        Invoke("assert_some_ne", "assert", <<a, b>>, m, EscalateUnit(assert_some_ne_as_result(a, b), m))

Do_debug_assert_some_ne ==
    /\ Callable("assert_some_ne", "debug")
    /\ \E a \in Again(OptionVals, 1), b \in Again(OptionVals, 2), m \in Again(MsgOpt, 0) :
        Invoke("assert_some_ne", "debug", <<a, b>>, m,
               DebugGate(debug_assertions, EscalateUnit(assert_some_ne_as_result(a, b), m)))

Do_assert_option_some_ne_as_result ==
    /\ Callable("assert_option_some_ne", "as_result")
    /\ \E a \in Again(OptionVals, 1), b \in Again(OptionVals, 2) :
        Invoke("assert_option_some_ne", "as_result", <<a, b>>, <<>>,
               assert_option_some_ne_as_result(a, b))

Do_assert_poll_ready_ne_as_result ==
    /\ Callable("assert_poll_ready_ne", "as_result")
    /\ \E a \in Again(PollVals, 1), b \in Again(PollVals, 2) :
        Invoke("assert_poll_ready_ne", "as_result", <<a, b>>, <<>>,
               assert_poll_ready_ne_as_result(a, b))

Do_assert_ok_ne_expr_as_result ==
    /\ Callable("assert_ok_ne_expr", "as_result")
    /\ \E a \in Again(ResultVals, 1), b \in Again(Ints, 2) :
        Invoke("assert_ok_ne_expr", "as_result", <<a, b>>, <<>>,
               assert_ok_ne_expr_as_result(a, b))

Do_assert_ready_eq2_as_result ==
    /\ Callable("assert_ready_eq2", "as_result")
    /\ \E a \in Again(PollVals, 1), b \in Again(PollVals, 2) :
        Invoke("assert_ready_eq2", "as_result", <<a, b>>, <<>>, assert_ready_eq2_as_result(a, b))

Do_assert_ready_eq2 ==
    /\ Callable("assert_ready_eq2", "assert")
    /\ \E a \in Again(PollVals, 1), b \in Again(PollVals, 2), m \in Again(MsgOpt, 0) :
        Invoke("assert_ready_eq2", "assert", <<a, b>>, m, EscalatePayload(assert_ready_eq2_as_result(a, b), m))

Do_debug_assert_ready_eq2 ==
    /\ Callable("assert_ready_eq2", "debug")
    /\ \E a \in Again(PollVals, 1), b \in Again(PollVals, 2), m \in Again(MsgOpt, 0) :
        Invoke("assert_ready_eq2", "debug", <<a, b>>, m,
               DebugGate(debug_assertions, EscalatePayload(assert_ready_eq2_as_result(a, b), m)))

Do_assert_len_ge_x_as_result ==
    /\ Callable("assert_len_ge_x", "as_result")
    /\ \E a \in Again(Colls, 1), b \in Again(IntExprs, 2) :
        Invoke("assert_len_ge_x", "as_result", <<a, b>>, <<>>, assert_len_ge_x_as_result(a, b))

Do_assert_len_ge_x ==
    /\ Callable("assert_len_ge_x", "assert")
    /\ \E a \in Again(Colls, 1), b \in Again(IntExprs, 2), m \in Again(MsgOpt, 0) :
        Invoke("assert_len_ge_x", "assert", <<a, b>>, m, EscalatePayload(assert_len_ge_x_as_result(a, b), m))

Do_debug_assert_len_ge_x ==
    /\ Callable("assert_len_ge_x", "debug")
    /\ \E a \in Again(Colls, 1), b \in Again(IntExprs, 2), m \in Again(MsgOpt, 0) :
        Invoke("assert_len_ge_x", "debug", <<a, b>>, m,
               DebugGate(debug_assertions, EscalatePayload(assert_len_ge_x_as_result(a, b), m)))

Do_assert_fn_le2_as_result ==
    /\ Callable("assert_fn_le2", "as_result")
    /\ \E a \in Again(IntExprs, 1), b \in Again(IntExprs, 2) :
        Invoke("assert_fn_le2", "as_result", <<a, b>>, <<>>, assert_fn_le2_as_result(a, b))

Do_assert_fn_le2 ==
    /\ Callable("assert_fn_le2", "assert")
    /\ \E a \in Again(IntExprs, 1), b \in Again(IntExprs, 2), m \in Again(MsgOpt, 0) :
        Invoke("assert_fn_le2", "assert", <<a, b>>, m, EscalatePayload(assert_fn_le2_as_result(a, b), m))

Do_debug_assert_fn_le2 ==
    /\ Callable("assert_fn_le2", "debug")
    /\ \E a \in Again(IntExprs, 1), b \in Again(IntExprs, 2), m \in Again(MsgOpt, 0) :
        Invoke("assert_fn_le2", "debug", <<a, b>>, m,
               DebugGate(debug_assertions, EscalatePayload(assert_fn_le2_as_result(a, b), m)))

Do_assert_fn_ok_ne_as_result ==
    /\ Callable("assert_fn_ok_ne", "as_result")
    /\ \E fa \in Again(FnKinds, 1), a \in Again(IntExprs, 2), fb \in Again(FnKinds, 3), b \in Again(IntExprs, 4) :
        Invoke("assert_fn_ok_ne", "as_result", <<fa, a, fb, b>>, <<>>,
               assert_fn_ok_ne_as_result(fa, a, fb, b))

Do_assert_fn_ok_ne ==
    /\ Callable("assert_fn_ok_ne", "assert")
    /\ \E fa \in Again(FnKinds, 1), a \in Again(IntExprs, 2), fb \in Again(FnKinds, 3), b \in Again(IntExprs, 4), m \in Again(MsgOpt, 0) :
        Invoke("assert_fn_ok_ne", "assert", <<fa, a, fb, b>>, m,
               EscalateUnit(assert_fn_ok_ne_as_result(fa, a, fb, b), m))

Do_debug_assert_fn_ok_ne ==
    /\ Callable("assert_fn_ok_ne", "debug")
    /\ \E fa \in Again(FnKinds, 1), a \in Again(IntExprs, 2), fb \in Again(FnKinds, 3), b \in Again(IntExprs, 4), m \in Again(MsgOpt, 0) :
        Invoke("assert_fn_ok_ne", "debug", <<fa, a, fb, b>>, m,
               DebugGate(debug_assertions, EscalateUnit(assert_fn_ok_ne_as_result(fa, a, fb, b), m)))

Do_assert_bag_eq2_as_result ==
    /\ Callable("assert_bag_eq2", "as_result")
    /\ \E a \in Again(Colls, 1), b \in Again(Colls, 2) :
        Invoke("assert_bag_eq2", "as_result", <<a, b>>, <<>>,
               assert_bag_eq2_as_result(a, b))

Do_assert_bag_eq2 ==
    /\ Callable("assert_bag_eq2", "assert")
    /\ \E a \in Again(Colls, 1), b \in Again(Colls, 2), m \in Again(MsgOpt, 0) :
        Invoke("assert_bag_eq2", "assert", <<a, b>>, m,
               EscalatePayload(assert_bag_eq2_as_result(a, b), m))

Do_debug_assert_bag_eq2 ==
    /\ Callable("assert_bag_eq2", "debug")
    /\ \E a \in Again(Colls, 1), b \in Again(Colls, 2), m \in Again(MsgOpt, 0) :
        Invoke("assert_bag_eq2", "debug", <<a, b>>, m,
               DebugGate(debug_assertions, EscalatePayload(assert_bag_eq2_as_result(a, b), m)))

Do_assert_bag_superbag_as_result ==
    /\ Callable("assert_bag_superbag", "as_result")
    /\ \E a \in Again(Colls, 1), b \in Again(Colls, 2) :
        Invoke("assert_bag_superbag", "as_result", <<a, b>>, <<>>,
               assert_bag_superbag_as_result(a, b))

Do_assert_bag_ne_as_result ==
    /\ Callable("assert_bag_ne", "as_result")
    /\ \E a \in Again(Colls, 1), b \in Again(Colls, 2) :
        Invoke("assert_bag_ne", "as_result", <<a, b>>, <<>>, assert_bag_ne_as_result(a, b))

Do_assert_bag_superbag ==
    /\ Callable("assert_bag_superbag", "assert")
    /\ \E a \in Again(Colls, 1), b \in Again(Colls, 2), m \in Again(MsgOpt, 0) :
        Invoke("assert_bag_superbag", "assert", <<a, b>>, m,
               EscalateUnit(assert_bag_superbag_as_result(a, b), m))

Do_debug_assert_bag_superbag ==
    /\ Callable("assert_bag_superbag", "debug")
    /\ \E a \in Again(Colls, 1), b \in Again(Colls, 2), m \in Again(MsgOpt, 0) :
        Invoke("assert_bag_superbag", "debug", <<a, b>>, m,
               DebugGate(debug_assertions, EscalateUnit(assert_bag_superbag_as_result(a, b), m)))

Do_assert_process_status_code_value_ge_as_result ==
    /\ Callable("assert_process_status_code_value_ge", "as_result")
    /\ \E a \in Again(StatusCommands, 1), b \in Again(StatusCommands, 2) :
        Invoke("assert_process_status_code_value_ge", "as_result", <<a, b>>, <<>>,
               assert_process_status_code_value_ge_as_result(a, b))

Do_assert_process_status_code_value_ge ==
    /\ Callable("assert_process_status_code_value_ge", "assert")
    /\ \E a \in Again(StatusCommands, 1), b \in Again(StatusCommands, 2), m \in Again(MsgOpt, 0) :
        Invoke("assert_process_status_code_value_ge", "assert", <<a, b>>, m,
               EscalatePayload(assert_process_status_code_value_ge_as_result(a, b), m))

Do_debug_assert_process_status_code_value_ge ==
    /\ Callable("assert_process_status_code_value_ge", "debug")
    /\ \E a \in Again(StatusCommands, 1), b \in Again(StatusCommands, 2), m \in Again(MsgOpt, 0) :
        Invoke("assert_process_status_code_value_ge", "debug", <<a, b>>, m,
               DebugGate(debug_assertions, EscalatePayload(assert_process_status_code_value_ge_as_result(a, b), m)))

Do_assert_command_stderr_contains_as_result ==
    /\ Callable("assert_command_stderr_contains", "as_result")
    /\ \E a \in Again(StderrCommands, 1), b \in Again(Strings, 2) :
        Invoke("assert_command_stderr_contains", "as_result", <<a, b>>, <<>>,
               assert_command_stderr_contains_as_result(a, b))

Do_assert_command_stderr_contains ==
    /\ Callable("assert_command_stderr_contains", "assert")
    /\ \E a \in Again(StderrCommands, 1), b \in Again(Strings, 2), m \in Again(MsgOpt, 0) :
        Invoke("assert_command_stderr_contains", "assert", <<a, b>>, m,
               EscalateUnit(assert_command_stderr_contains_as_result(a, b), m))

Do_debug_assert_command_stderr_contains ==
    /\ Callable("assert_command_stderr_contains", "debug")
    /\ \E a \in Again(StderrCommands, 1), b \in Again(Strings, 2), m \in Again(MsgOpt, 0) :
        Invoke("assert_command_stderr_contains", "debug", <<a, b>>, m,
               DebugGate(debug_assertions, EscalateUnit(assert_command_stderr_contains_as_result(a, b), m)))

Do_assert_program_args_stderr_ge_expr_as_result ==
    /\ Callable("assert_program_args_stderr_ge_expr", "as_result")
    /\ \E a \in Again(StderrCommands, 1), b \in Again(Strings, 2) :
        Invoke("assert_program_args_stderr_ge_expr", "as_result", <<a, b>>, <<>>,
               assert_program_args_stderr_ge_expr_as_result(a, b))

Do_assert_program_args_stderr_ge_expr ==
    /\ Callable("assert_program_args_stderr_ge_expr", "assert")
    /\ \E a \in Again(StderrCommands, 1), b \in Again(Strings, 2), m \in Again(MsgOpt, 0) :
        Invoke("assert_program_args_stderr_ge_expr", "assert", <<a, b>>, m,
               EscalateUnit(assert_program_args_stderr_ge_expr_as_result(a, b), m))

Do_debug_assert_program_args_stderr_ge_expr ==
    /\ Callable("assert_program_args_stderr_ge_expr", "debug")
    /\ \E a \in Again(StderrCommands, 1), b \in Again(Strings, 2), m \in Again(MsgOpt, 0) :
        Invoke("assert_program_args_stderr_ge_expr", "debug", <<a, b>>, m,
               DebugGate(debug_assertions, EscalateUnit(assert_program_args_stderr_ge_expr_as_result(a, b), m)))

Do_assert_program_args_stdout_ge2_as_result ==
    /\ Callable("assert_program_args_stdout_ge2", "as_result")
    /\ \E a \in Again(StdoutCommands, 1), b \in Again(StdoutCommands, 2) :
        Invoke("assert_program_args_stdout_ge2", "as_result", <<a, b>>, <<>>,
               assert_program_args_stdout_ge2_as_result(a, b))

Do_assert_program_args_stdout_ge2 ==
    /\ Callable("assert_program_args_stdout_ge2", "assert")
    /\ \E a \in Again(StdoutCommands, 1), b \in Again(StdoutCommands, 2), m \in Again(MsgOpt, 0) :
        Invoke("assert_program_args_stdout_ge2", "assert", <<a, b>>, m,
               assert_program_args_stdout_ge2(a, b, m))
Do_assert_command_stdout_eq_expr_as_result ==
    /\ Callable("assert_command_stdout_eq_expr", "as_result")
    /\ \E a \in Again(StdoutCommands, 1), b \in Again(Strings, 2) :
        Invoke("assert_command_stdout_eq_expr", "as_result", <<a, b>>, <<>>,
               assert_command_stdout_eq_expr_as_result(a, b))

Do_assert_command_stdout_eq_expr ==
    /\ Callable("assert_command_stdout_eq_expr", "assert")
    /\ \E a \in Again(StdoutCommands, 1), b \in Again(Strings, 2), m \in Again(MsgOpt, 0) :
        Invoke("assert_command_stdout_eq_expr", "assert", <<a, b>>, m,
               EscalateUnit(assert_command_stdout_eq_expr_as_result(a, b), m))

Do_debug_assert_command_stdout_eq_expr ==
    /\ Callable("assert_command_stdout_eq_expr", "debug")
    /\ \E a \in Again(StdoutCommands, 1), b \in Again(Strings, 2), m \in Again(MsgOpt, 0) :
        Invoke("assert_command_stdout_eq_expr", "debug", <<a, b>>, m,
               DebugGate(debug_assertions, EscalateUnit(assert_command_stdout_eq_expr_as_result(a, b), m)))

Do_assert_command_stderr_eq2_as_result ==
    /\ Callable("assert_command_stderr_eq2", "as_result")
    /\ \E a \in Again(StderrCommands, 1), b \in Again(StderrCommands, 2) :
        Invoke("assert_command_stderr_eq2", "as_result", <<a, b>>, <<>>,
               assert_command_stderr_eq2_as_result(a, b))

Do_assert_command_stderr_eq2 ==
    /\ Callable("assert_command_stderr_eq2", "assert")
    /\ \E a \in Again(StderrCommands, 1), b \in Again(StderrCommands, 2), m \in Again(MsgOpt, 0) :
        Invoke("assert_command_stderr_eq2", "assert", <<a, b>>, m,
               EscalatePayload(assert_command_stderr_eq2_as_result(a, b), m))

Do_debug_assert_command_stderr_eq2 ==
    /\ Callable("assert_command_stderr_eq2", "debug")
    /\ \E a \in Again(StderrCommands, 1), b \in Again(StderrCommands, 2), m \in Again(MsgOpt, 0) :
        Invoke("assert_command_stderr_eq2", "debug", <<a, b>>, m,
               DebugGate(debug_assertions, EscalatePayload(assert_command_stderr_eq2_as_result(a, b), m)))

Do_assert_fs_read_to_string_gt_as_result ==
    /\ Callable("assert_fs_read_to_string_gt", "as_result")
    /\ \E a \in Again(Paths, 1), b \in Again(Paths, 2) :
        Invoke("assert_fs_read_to_string_gt", "as_result", <<a, b>>, <<>>,
               assert_fs_read_to_string_gt_as_result(a, b))

Do_assert_fs_read_to_string_gt ==
    /\ Callable("assert_fs_read_to_string_gt", "assert")
    /\ \E a \in Again(Paths, 1), b \in Again(Paths, 2), m \in Again(MsgOpt, 0) :
        Invoke("assert_fs_read_to_string_gt", "assert", <<a, b>>, m,
               EscalateUnit(assert_fs_read_to_string_gt_as_result(a, b), m))

Do_debug_assert_fs_read_to_string_gt ==
    /\ Callable("assert_fs_read_to_string_gt", "debug")
    /\ \E a \in Again(Paths, 1), b \in Again(Paths, 2), m \in Again(MsgOpt, 0) :
        Invoke("assert_fs_read_to_string_gt", "debug", <<a, b>>, m,
               Unresolved("$crate::std::fs::read_to_string_gt!"))

Do_assert_fs_read_to_string_gt2_as_result ==
    /\ Callable("assert_fs_read_to_string_gt2", "as_result")
    /\ \E a \in Again(Paths, 1), b \in Again(Paths, 2) :
        Invoke("assert_fs_read_to_string_gt2", "as_result", <<a, b>>, <<>>,
               assert_fs_read_to_string_gt2_as_result(a, b))

Do_assert_fs_read_to_string_gt2 ==
    /\ Callable("assert_fs_read_to_string_gt2", "assert")
    /\ \E a \in Again(Paths, 1), b \in Again(Paths, 2), m \in Again(MsgOpt, 0) :
        Invoke("assert_fs_read_to_string_gt2", "assert", <<a, b>>, m,
               EscalatePayload(assert_fs_read_to_string_gt2_as_result(a, b), m))

Do_debug_assert_fs_read_to_string_gt2 ==
    /\ Callable("assert_fs_read_to_string_gt2", "debug")
    /\ \E a \in Again(Paths, 1), b \in Again(Paths, 2), m \in Again(MsgOpt, 0) :
        Invoke("assert_fs_read_to_string_gt2", "debug", <<a, b>>, m,
               Unresolved("$crate::std::fs::read_to_string_gt!"))

Do_assert_fs_read_to_string_contains_as_result ==
    /\ Callable("assert_fs_read_to_string_contains", "as_result")
    /\ \E a \in Again(Paths, 1), b \in Again(Strings, 2) :
        Invoke("assert_fs_read_to_string_contains", "as_result", <<a, b>>, <<>>,
               assert_fs_read_to_string_contains_as_result(a, b))

Do_assert_fs_read_to_string_contains ==
    /\ Callable("assert_fs_read_to_string_contains", "assert")
    /\ \E a \in Again(Paths, 1), b \in Again(Strings, 2), m \in Again(MsgOpt, 0) :
        Invoke("assert_fs_read_to_string_contains", "assert", <<a, b>>, m,
               EscalateUnit(assert_fs_read_to_string_contains_as_result(a, b), m))

Do_debug_assert_fs_read_to_string_contains ==
    /\ Callable("assert_fs_read_to_string_contains", "debug")
    /\ \E a \in Again(Paths, 1), b \in Again(Strings, 2), m \in Again(MsgOpt, 0) :
        Invoke("assert_fs_read_to_string_contains", "debug", <<a, b>>, m,
               Unresolved("$crate::std::fs::read_to_string_contains!"))

Do_assert_set_superset_other_as_result ==
    /\ Callable("assert_set_superset_other", "as_result")
    /\ \E a \in Again(Colls, 1), b \in Again(Colls, 2) :
        Invoke("assert_set_superset_other", "as_result", <<a, b>>, <<>>,
               assert_set_superset_other_as_result(a, b))

Do_assertable_set_subset ==
    /\ Callable("assertable_set_subset", "as_result")
    /\ \E a \in Again(Colls, 1), b \in Again(Colls, 2), m \in Again(MsgOpt, 0) :
        Invoke("assertable_set_subset", "as_result", <<a, b>>, m,
               assertable_set_subset(a, b, m))

Do_assure_bag_eq ==
    /\ Callable("assure_bag_eq", "as_result")
    /\ \E a \in Again(Colls, 1), b \in Again(Colls, 2), m \in Again(MsgOpt, 0) :
        Invoke("assure_bag_eq", "as_result", <<a, b>>, m, assure_bag_eq(a, b, m))

Do_assure_io_eq ==
    /\ Callable("assure_io_eq", "as_result")
    /\ \E a \in Again(Ints, 1), b \in Again(Ints, 2), m \in Again(MsgOpt, 0) :
        Invoke("assure_io_eq", "as_result", <<a, b>>, m, assure_io_eq(a, b, m))
Do_assertable_ne ==
    /\ Callable("assertable_ne", "as_result")
    /\ \E a \in Again(Ints, 1), b \in Again(Ints, 2), m \in Again(MsgOpt, 0) :
        Invoke("assertable_ne", "as_result", <<a, b>>, m, assertable_ne(a, b, m))

Do_assume_fn_err_string_ge ==
    /\ Callable("assume_fn_err_string_ge", "as_result")
    /\ \E fa \in Again(FnKinds, 1), a \in Again(Ints, 2), b \in Again(Ints, 3), m \in Again(MsgOpt, 0) :
        Invoke("assume_fn_err_string_ge", "as_result", <<fa, a, b>>, m,
               assume_fn_err_string_ge(fa, a, b, m))

Do_assertable_command_stdout_eq_string ==
    /\ Callable("assertable_command_stdout_eq_string", "as_result")
    /\ \E a \in Again(StdoutCommands, 1), b \in Again(Strings, 2), m \in Again(MsgOpt, 0) :
        Invoke("assertable_command_stdout_eq_string", "as_result", <<a, b>>, m,
               assertable_command_stdout_eq_string(a, b, m))
Do_assert_command_stdout_eq_string ==
    /\ Callable("assert_command_stdout_eq_string", "assert")
    /\ \E a \in Again(StdoutCommands, 1), b \in Again(Strings, 2), m \in Again(MsgOpt, 0) :
        Invoke("assert_command_stdout_eq_string", "assert", <<a, b>>, m,
               assert_command_stdout_eq_string(a, b, m))

Do_assert_std_io_read_to_string_lt ==
    /\ Callable("assert_std_io_read_to_string_lt", "assert")
    /\ \E m \in Again(MsgOpt, 0) :
        Invoke("assert_std_io_read_to_string_lt", "assert", <<>>, m,
               assert_std_io_read_to_string_lt(readers, m))

Do_assert_fn_ok_ge ==
    /\ Callable("assert_fn_ok_ge", "assert")
    /\ \E fa \in Again(FnKinds, 1), a \in Again(Ints, 2), b \in Again(Ints, 3), m \in Again(MsgOpt, 0) :
        Invoke("assert_fn_ok_ge", "assert", <<fa, a, b>>, m, assert_fn_ok_ge(fa, a, b, m))
Do_assert_io_read_to_string_lt2_as_result ==
    /\ Callable("assert_io_read_to_string_lt2", "as_result")
    /\ Invoke("assert_io_read_to_string_lt2", "as_result", <<>>, <<>>,
              assert_io_read_to_string_lt2_as_result(readers))

Do_assert_io_read_to_string_lt2 ==
    /\ Callable("assert_io_read_to_string_lt2", "assert")
    /\ \E m \in Again(MsgOpt, 0) :
        Invoke("assert_io_read_to_string_lt2", "assert", <<>>, m,
               EscalatePayload(assert_io_read_to_string_lt2_as_result(readers), m))

Do_debug_assert_io_read_to_string_lt2 ==
    /\ Callable("assert_io_read_to_string_lt2", "debug")
    /\ \E m \in Again(MsgOpt, 0) :
        Invoke("assert_io_read_to_string_lt2", "debug", <<>>, m,
               DebugGate(debug_assertions, EscalatePayload(assert_io_read_to_string_lt2_as_result(readers), m)))

Do_assert_read_to_string_matches_as_result ==
    /\ Callable("assert_read_to_string_matches", "as_result")
    /\ \E b \in Again(Patterns, 1) :
        Invoke("assert_read_to_string_matches", "as_result", <<b>>, <<>>,
               assert_read_to_string_matches_as_result(readers, b))

Do_assert_read_to_string_matches ==
    /\ Callable("assert_read_to_string_matches", "assert")
    /\ \E b \in Again(Patterns, 1), m \in Again(MsgOpt, 0) :
        Invoke("assert_read_to_string_matches", "assert", <<b>>, m,
               EscalateUnit(assert_read_to_string_matches_as_result(readers, b), m))

Next ==
    \/ Do_assert_err_as_result
    \/ Do_assert_err
    \/ Do_debug_assert_err
    \/ Do_assert_err_eq_x_as_result
    \/ Do_assert_err_eq_x
    \/ Do_debug_assert_err_eq_x
    \/ Do_assert_result_ok_as_result
    \/ Do_assert_result_ok
    \/ Do_debug_assert_result_ok
    \/ Do_assert_eq_as_result
    \/ Do_assert_le
    \/ Do_assert_some_ne_as_result
    \/ Do_assert_some_ne
    \/ Do_debug_assert_some_ne
    \/ Do_assert_option_some_ne_as_result
    \/ Do_assert_poll_ready_ne_as_result
    \/ Do_assert_ok_ne_expr_as_result
    \/ Do_assert_ready_eq2_as_result
    \/ Do_assert_ready_eq2
    \/ Do_debug_assert_ready_eq2
    \/ Do_assert_len_ge_x_as_result
    \/ Do_assert_len_ge_x
    \/ Do_debug_assert_len_ge_x
    \/ Do_assert_fn_le2_as_result
    \/ Do_assert_fn_le2
    \/ Do_debug_assert_fn_le2
    \/ Do_assert_fn_ok_ne_as_result
    \/ Do_assert_fn_ok_ne
    \/ Do_debug_assert_fn_ok_ne
    \/ Do_assert_bag_eq2_as_result
    \/ Do_assert_bag_eq2
    \/ Do_debug_assert_bag_eq2
    \/ Do_assert_bag_superbag_as_result
    \/ Do_assert_bag_ne_as_result
    \/ Do_assert_bag_superbag
    \/ Do_debug_assert_bag_superbag
    \/ Do_assert_process_status_code_value_ge_as_result
    \/ Do_assert_process_status_code_value_ge
    \/ Do_debug_assert_process_status_code_value_ge
    \/ Do_assert_command_stderr_contains_as_result
    \/ Do_assert_command_stderr_contains
    \/ Do_debug_assert_command_stderr_contains
    \/ Do_assert_program_args_stderr_ge_expr_as_result
    \/ Do_assert_program_args_stderr_ge_expr
    \/ Do_debug_assert_program_args_stderr_ge_expr
    \/ Do_assert_program_args_stdout_ge2_as_result
    \/ Do_assert_program_args_stdout_ge2
    \/ Do_assert_command_stdout_eq_expr_as_result
    \/ Do_assert_command_stdout_eq_expr
    \/ Do_debug_assert_command_stdout_eq_expr
    \/ Do_assert_command_stderr_eq2_as_result
    \/ Do_assert_command_stderr_eq2
    \/ Do_debug_assert_command_stderr_eq2
    \/ Do_assert_fs_read_to_string_gt_as_result
    \/ Do_assert_fs_read_to_string_gt
    \/ Do_debug_assert_fs_read_to_string_gt
    \/ Do_assert_fs_read_to_string_gt2_as_result
    \/ Do_assert_fs_read_to_string_gt2
    \/ Do_debug_assert_fs_read_to_string_gt2
    \/ Do_assert_fs_read_to_string_contains_as_result
    \/ Do_assert_fs_read_to_string_contains
    \/ Do_debug_assert_fs_read_to_string_contains
    \/ Do_assert_set_superset_other_as_result
    \/ Do_assertable_set_subset
    \/ Do_assure_bag_eq
    \/ Do_assure_io_eq
    \/ Do_assertable_ne
    \/ Do_assume_fn_err_string_ge
    \/ Do_assertable_command_stdout_eq_string
    \/ Do_assert_command_stdout_eq_string
    \/ Do_assert_std_io_read_to_string_lt
    \/ Do_assert_fn_ok_ge
    \/ Do_assert_io_read_to_string_lt2_as_result
    \/ Do_assert_io_read_to_string_lt2
    \/ Do_debug_assert_io_read_to_string_lt2
    \/ Do_assert_read_to_string_matches_as_result
    \/ Do_assert_read_to_string_matches

Spec == Init /\ [][Next]_vars

----------------------------------------------------------------------------
(* The three forms of a family, applied to a recorded invocation. *)

WithResultForm ==
    {"assert_err", "assert_err_eq_x", "assert_result_ok", "assert_eq", "assert_some_ne",
     "assert_ready_eq2", "assert_len_ge_x", "assert_fn_le2", "assert_fn_ok_ne",
     "assert_bag_eq2", "assert_bag_superbag", "assertable_set_subset",
     "assert_process_status_code_value_ge", "assert_command_stderr_contains",
     "assert_program_args_stderr_ge_expr", "assert_command_stdout_eq_expr",
     "assert_command_stderr_eq2", "assert_fs_read_to_string_gt",
     "assert_fs_read_to_string_gt2", "assert_fs_read_to_string_contains",
     "assert_io_read_to_string_lt2", "assert_read_to_string_matches"}

\* X_as_result!(operands) for the operands of the invocation i
AsResultOf(i) ==
    LET x == i.args IN
    CASE i.family = "assert_err" -> assert_err_as_result(x[1])
      [] i.family = "assert_err_eq_x" -> assert_err_eq_x_as_result(x[1], x[2])
      [] i.family = "assert_result_ok" -> assert_result_ok_as_result(x[1])
      [] i.family = "assert_eq" -> assert_eq_as_result(x[1], x[2])
      [] i.family = "assert_some_ne" -> assert_some_ne_as_result(x[1], x[2])
      [] i.family = "assert_option_some_ne" -> assert_option_some_ne_as_result(x[1], x[2])
      [] i.family = "assert_poll_ready_ne" -> assert_poll_ready_ne_as_result(x[1], x[2])
      [] i.family = "assert_ok_ne_expr" -> assert_ok_ne_expr_as_result(x[1], x[2])
      [] i.family = "assert_ready_eq2" -> assert_ready_eq2_as_result(x[1], x[2])
      [] i.family = "assert_len_ge_x" -> assert_len_ge_x_as_result(x[1], x[2])
      [] i.family = "assert_fn_le2" -> assert_fn_le2_as_result(x[1], x[2])
      [] i.family = "assert_fn_ok_ne" -> assert_fn_ok_ne_as_result(x[1], x[2], x[3], x[4])
      [] i.family = "assert_bag_eq2" -> assert_bag_eq2_as_result(x[1], x[2])
      [] i.family = "assert_bag_superbag" -> assert_bag_superbag_as_result(x[1], x[2])
      [] i.family = "assert_bag_ne" -> assert_bag_ne_as_result(x[1], x[2])
      [] i.family = "assert_set_superset_other" -> assert_set_superset_other_as_result(x[1], x[2])
      [] i.family = "assertable_set_subset" -> assertable_set_subset(x[1], x[2], i.msg)
      [] i.family = "assure_bag_eq" -> assure_bag_eq(x[1], x[2], i.msg)
      [] i.family = "assure_io_eq" -> assure_io_eq(x[1], x[2], i.msg)
      [] i.family = "assertable_ne" -> assertable_ne(x[1], x[2], i.msg)
      [] i.family = "assume_fn_err_string_ge" -> assume_fn_err_string_ge(x[1], x[2], x[3], i.msg)
      [] i.family = "assertable_command_stdout_eq_string" ->
             assertable_command_stdout_eq_string(x[1], x[2], i.msg)
      [] i.family = "assert_process_status_code_value_ge" ->
             assert_process_status_code_value_ge_as_result(x[1], x[2])
      [] i.family = "assert_command_stderr_contains" ->
             assert_command_stderr_contains_as_result(x[1], x[2])
      [] i.family = "assert_program_args_stderr_ge_expr" ->
             assert_program_args_stderr_ge_expr_as_result(x[1], x[2])
      [] i.family = "assert_program_args_stdout_ge2" ->
             assert_program_args_stdout_ge2_as_result(x[1], x[2])
      [] i.family = "assert_command_stdout_eq_expr" ->
             assert_command_stdout_eq_expr_as_result(x[1], x[2])
      [] i.family = "assert_command_stderr_eq2" -> assert_command_stderr_eq2_as_result(x[1], x[2])
      [] i.family = "assert_fs_read_to_string_gt" -> assert_fs_read_to_string_gt_as_result(x[1], x[2])
      [] i.family = "assert_fs_read_to_string_gt2" -> assert_fs_read_to_string_gt2_as_result(x[1], x[2])
      [] i.family = "assert_fs_read_to_string_contains" ->
             assert_fs_read_to_string_contains_as_result(x[1], x[2])
      [] i.family = "assert_io_read_to_string_lt2" -> assert_io_read_to_string_lt2_as_result(i.rd)
      [] i.family = "assert_read_to_string_matches" ->
             assert_read_to_string_matches_as_result(i.rd, x[1])

\* The families whose panicking form returns the payload: Ok(x) => x
WithPayload ==
    {"assert_err_eq_x", "assert_ready_eq2", "assert_len_ge_x", "assert_fn_le2", "assert_bag_eq2",
     "assert_process_status_code_value_ge", "assert_command_stderr_eq2",
     "assert_fs_read_to_string_gt2", "assert_io_read_to_string_lt2"}

\* X!(operands) or X!(operands, message) for the operands of the invocation i
AssertOf(i) ==
    CASE i.family = "assert_le" -> assert_le(i.args[1], i.args[2], i.msg)
      [] i.family = "assert_command_stdout_eq_string" ->
             assert_command_stdout_eq_string(i.args[1], i.args[2], i.msg)
      [] i.family = "assert_std_io_read_to_string_lt" -> assert_std_io_read_to_string_lt(i.rd, i.msg)
      [] i.family = "assert_program_args_stdout_ge2" ->
             assert_program_args_stdout_ge2(i.args[1], i.args[2], i.msg)
      [] i.family = "assert_fn_ok_ge" -> assert_fn_ok_ge(i.args[1], i.args[2], i.args[3], i.msg)
      [] i.family \in WithPayload -> EscalatePayload(AsResultOf(i), i.msg)
      [] OTHER -> EscalateUnit(AsResultOf(i), i.msg)

\* The operand expressions a family's macros take, by parameter name.
Operands(family) ==
    CASE family \in {"assert_err"} -> {"a"}
      [] family = "assert_result_ok" -> {"result"}
      [] family = "assert_bag_eq2" -> {"a_collection", "b_collection"}
      [] family = "assert_option_some_ne" -> {"a_option", "b_option"}
      [] family = "assert_fn_le2" -> {"a_param", "b_param"}
      [] family = "assert_fn_ok_ne" -> {"a_param", "b_param"}
      [] family = "assert_le" -> {"left", "right"}
      [] family \in {"assertable_set_subset", "assertable_ne", "assume_fn_err_string_ge",
                     "assure_bag_eq", "assure_io_eq", "assert_fn_ok_ge"} ->
             {"left", "right"}
      [] family = "assertable_command_stdout_eq_string" -> {"command", "string"}
      [] family = "assert_command_stderr_contains" -> {"command", "containee"}
      [] family = "assert_command_stdout_eq_string" -> {"command", "string"}
      [] family = "assert_program_args_stderr_ge_expr" -> {"a_program", "a_args", "b_expr"}
      [] family = "assert_program_args_stdout_ge2" ->
             {"a_program", "a_args", "b_program", "b_args"}
      [] family = "assert_command_stdout_eq_expr" -> {"a_command", "b_expr"}
      [] family = "assert_command_stderr_eq2" -> {"a_command", "b_command"}
      [] family \in {"assert_fs_read_to_string_gt", "assert_fs_read_to_string_gt2"} ->
             {"a_path", "b_path"}
      [] family = "assert_fs_read_to_string_contains" -> {"path", "containee"}
      [] family = "assert_read_to_string_matches" -> {"a", "b_matcher"}
      [] OTHER -> {"a", "b"}

\* How many times the event e occurs in the log l
Count(l, e) == Cardinality({k \in DOMAIN l : l[k] = e})

\* The invocation i ran its check: it was not compiled out and it expanded.
Ran ==
    /\ inv # NoInv
    /\ out.kind \notin {"Skipped", "Unresolved"}

\* The check of the panicking form fails on the operands of i: without a
\* custom message the form panics with the generated diagnostic.
CheckFails(i) ==
    LET r == AssertOf([i EXCEPT !.msg = <<>>])
    IN  r.kind = "Panic" /\ r.segs # <<>>

\* The operand values a family's result form is invoked on.
ArgsOf(family) ==
    CASE family \in {"assert_err", "assert_result_ok"} -> {<<a>> : a \in ResultVals}
      [] family = "assert_err_eq_x" -> ResultVals \X IntExprs
      [] family \in {"assert_some_ne", "assert_option_some_ne"} -> OptionVals \X OptionVals
      [] family \in {"assert_ready_eq2", "assert_poll_ready_ne"} -> PollVals \X PollVals
      [] family = "assert_ok_ne_expr" -> ResultVals \X Ints
      [] family = "assert_process_status_code_value_ge" -> StatusCommands \X StatusCommands
      [] family = "assert_command_stderr_eq2" -> StderrCommands \X StderrCommands
      [] family = "assert_program_args_stdout_ge2" -> StdoutCommands \X StdoutCommands
      [] family \in {"assert_command_stderr_contains", "assert_program_args_stderr_ge_expr"} ->
             StderrCommands \X Strings
      [] family = "assert_command_stdout_eq_expr" -> StdoutCommands \X Strings
      [] family \in {"assert_fs_read_to_string_gt", "assert_fs_read_to_string_gt2"} -> Paths \X Paths
      [] family = "assert_fs_read_to_string_contains" -> Paths \X Strings
      [] family = "assert_io_read_to_string_lt2" -> {<<>>}
      [] family = "assert_read_to_string_matches" -> {<<b>> : b \in Patterns}

\* Every invocation of the result form of a family
InvocationsOf(family) ==
    {[family |-> family, form |-> "as_result", args |-> x, msg |-> <<>>, rd |-> r] :
        x \in ArgsOf(family), r \in [Reads(family) -> ReaderStates]}

\* The families with an operand whose evaluation can fail
Fallible ==
    {"assert_process_status_code_value_ge", "assert_command_stderr_eq2",
     "assert_program_args_stdout_ge2", "assert_command_stderr_contains", "assert_program_args_stderr_ge_expr",
     "assert_command_stdout_eq_expr", "assert_fs_read_to_string_gt",
     "assert_fs_read_to_string_gt2", "assert_fs_read_to_string_contains",
     "assert_io_read_to_string_lt2", "assert_read_to_string_matches"}

\* An operand of the invocation i cannot be evaluated: the process cannot be
\* run or has no exit code, the file or the reader cannot be read.
EvalFails(i) ==
    LET x == i.args IN
    CASE i.family = "assert_process_status_code_value_ge" ->
             \E k \in 1..2 : Status(x[k])[1] = "Err" \/ Status(x[k])[2][1] = "None"
      [] i.family \in {"assert_command_stderr_eq2", "assert_program_args_stdout_ge2"} ->
             \E k \in 1..2 : Output(x[k])[1] = "Err"
      [] i.family \in {"assert_command_stderr_contains", "assert_program_args_stderr_ge_expr",
                       "assert_command_stdout_eq_expr"} -> Output(x[1])[1] = "Err"
      [] i.family \in {"assert_fs_read_to_string_gt", "assert_fs_read_to_string_gt2"} ->
             \E k \in 1..2 : fs_read_to_string(x[k])[1] = "Err"
      [] i.family = "assert_fs_read_to_string_contains" -> fs_read_to_string(x[1])[1] = "Err"
      [] i.family \in {"assert_io_read_to_string_lt2", "assert_read_to_string_matches"} ->
             \E r \in DOMAIN i.rd : read_to_string(i.rd[r]).result[1] = "Err"
      [] OTHER -> FALSE

\* The unwrap families and the variant each expects of its operands
Unwrapping ==
    [assert_err |-> "Err", assert_err_eq_x |-> "Err", assert_result_ok |-> "Ok",
     assert_some_ne |-> "Some", assert_ready_eq2 |-> "Ready",
     assert_option_some_ne |-> "Some", assert_poll_ready_ne |-> "Ready",
     assert_ok_ne_expr |-> "Ok"]

\* The operands of i that the family unwraps
Unwrapped(i) ==
    IF i.family \in {"assert_some_ne", "assert_ready_eq2", "assert_option_some_ne",
                     "assert_poll_ready_ne"}
    THEN {i.args[1], i.args[2]}
    ELSE {i.args[1]}

\* An operand of the invocation i is not the variant the family unwraps.
PreconditionFails(i) ==
    /\ i.family \in DOMAIN Unwrapping
    /\ \E x \in Unwrapped(i) : x[1] # Unwrapping[i.family]

\* The diagnostics a family produces when its operands are evaluated and
\* unwrapped but the comparison fails
MismatchTexts ==
    [family \in Fallible \cup DOMAIN Unwrapping |->
        {AsResultOf(i).text : i \in {j \in InvocationsOf(family) :
            ~EvalFails(j) /\ ~PreconditionFails(j) /\ AsResultOf(j).kind = "Err"}}]

----------------------------------------------------------------------------
(* Properties *)

\* C1: for every family with both forms and all operands, X! returns normally
\* iff X_as_result! returns Ok, and panics iff X_as_result! returns Err.
C1_PanickingFollowsResult ==
    (inv.form = "assert" /\ inv.family \in WithResultForm) =>
        /\ out.kind = "Return" <=> AsResultOf(inv).kind = "Ok"
        /\ out.kind = "Panic" <=> AsResultOf(inv).kind = "Err"

\* C2: an _as_result form never panics, whatever its operands evaluate to,
\* a process whose output is not UTF-8 included.
C2_ResultFormNeverPanics ==
    inv.form = "as_result" => out.kind # "Panic"

\* C3: in one invocation of any form that runs its check, each operand
\* expression is evaluated exactly once, on success and on failure.
C3_OperandsEvaluatedOnce ==
    Ran => \A x \in Operands(inv.family) : Count(log, Eval(x)) = 1

\* C4: when a panicking form is given a custom message and its check fails,
\* the panic payload is the custom message, character for character.
C4_PayloadIsCustomMessage ==
    (inv.form = "assert" /\ inv.msg # <<>> /\ CheckFails(inv)) =>
        /\ out.kind = "Panic"
        /\ out.text = DisplayStr(inv.msg[1])

\* C5: with debug assertions disabled, debug_X! evaluates none of its
\* operands and does not panic, also on operands for which X! panics.
C5_DisabledDebugFormDoesNothing ==
    (inv.form = "debug" /\ ~debug_assertions) =>
        /\ log = <<>>
        /\ out.kind # "Panic"

C5_Witness ==
    /\ inv.form = "debug"
    /\ ~debug_assertions
    /\ AssertOf(inv).kind = "Panic"
    /\ out.kind = "Skipped"

\* C6: with debug assertions enabled, debug_X!(args) behaves as X!(args):
\* same evaluations, same return, same panic payload.
C6_EnabledDebugFormIsPanickingForm ==
    (inv.form = "debug" /\ debug_assertions) =>
        /\ out.kind = AssertOf(inv).kind
        /\ out.text = AssertOf(inv).text
        /\ log = AssertOf(inv).log

\* C7: when an operand cannot be evaluated the assertion yields an Err whose
\* diagnostic shows the failed evaluation and is the text of no comparison
\* mismatch of the same family.
C7_EvaluationFailureIsDistinct ==
    (inv.form = "as_result" /\ inv.family \in Fallible /\ EvalFails(inv)) =>
        /\ out.kind = "Err"
        /\ \E k \in DOMAIN out.segs :
               out.segs[k][2] \in {"None"} \cup
                   UNION {{DebugIoError(e), "Err(" \o DebugIoError(e) \o ")"} :
                              e \in {"NotFound", "InvalidData"}}
        /\ out.text \notin MismatchTexts[inv.family]

C7_Witness ==
    /\ inv.form = "as_result"
    /\ inv.family = "assert_command_stderr_eq2"
    /\ EvalFails(inv)
    /\ out.kind = "Err"
    /\ MismatchTexts[inv.family] # {}

C10_ExactlyOneOfOkErr ==
    inv.form = "as_result" =>
        /\ out.kind = "Ok" \/ out.kind = "Err"
        /\ ~(out.kind = "Ok" /\ out.kind = "Err")

\* The operands of a family in the order of the macro's parameters.  An
\* operand is the set of the expressions that make it up: a function and its
\* parameter, a program and its arguments.
OperandOrder(family) ==
    CASE family \in {"assert_err"} -> <<{"a"}>>
      [] family = "assert_result_ok" -> <<{"result"}>>
      [] family = "assert_bag_eq2" -> <<{"a_collection"}, {"b_collection"}>>
      [] family = "assert_option_some_ne" -> <<{"a_option"}, {"b_option"}>>
      [] family \in {"assert_fn_le2", "assert_fn_ok_ne"} ->
             <<{"a_function", "a_param"}, {"b_function", "b_param"}>>
      [] family \in {"assert_le", "assertable_set_subset", "assertable_ne", "assure_bag_eq",
                     "assure_io_eq", "assume_fn_err_string_ge", "assert_fn_ok_ge"} ->
             <<{"left"}, {"right"}>>
      [] family = "assertable_command_stdout_eq_string" -> <<{"command"}, {"string"}>>
      [] family = "assert_command_stderr_contains" -> <<{"command"}, {"containee"}>>
      [] family = "assert_command_stdout_eq_string" -> <<{"command"}, {"string"}>>
      [] family = "assert_program_args_stderr_ge_expr" ->
             <<{"a_program", "a_args", "a_command"}, {"b_expr"}>>
      [] family = "assert_program_args_stdout_ge2" ->
             <<{"a_program", "a_args", "a_command"}, {"b_program", "b_args", "b_command"}>>
      [] family = "assert_command_stdout_eq_expr" -> <<{"a_command"}, {"b_expr"}>>
      [] family = "assert_command_stderr_eq2" -> <<{"a_command"}, {"b_command"}>>
      [] family \in {"assert_fs_read_to_string_gt", "assert_fs_read_to_string_gt2"} ->
             <<{"a_path"}, {"b_path"}>>
      [] family = "assert_fs_read_to_string_contains" -> <<{"path"}, {"containee"}>>
      [] family = "assert_read_to_string_matches" -> <<{"a"}, {"b_matcher"}>>
      [] OTHER -> <<{"a"}, {"b"}>>

\* C11: in every assertion that runs its check the operands are evaluated
\* left to right: the first evaluation of an earlier operand, the run of its
\* command or the call of its function included, is over before the first
\* evaluation of a later operand starts.
C11_OperandsLeftToRight ==
    Ran =>
        LET order == OperandOrder(inv.family)
            On(x) == {k \in DOMAIN log : log[k][2] \in x}
            Min(S) == CHOOSE k \in S : \A j \in S : k <= j
            Acts(x) == {k \in On(x) : log[k][1] \in {"run", "call"}}
            Done(x) == IF Acts(x) # {} THEN Min(Acts(x)) ELSE Min(On(x))
        IN  \A p, q \in DOMAIN order :
                (p < q /\ On(order[p]) # {} /\ On(order[q]) # {}) =>
                    Done(order[p]) < Min(On(order[q]))

\* C12: when a panicking form without a custom message is invoked on operands
\* for which the result form returns Err, it panics and the panic payload is
\* that Err's diagnostic string, nothing added and nothing removed.
C12_PayloadIsDiagnostic ==
    (inv.form = "assert" /\ inv.msg = <<>> /\ inv.family \in WithResultForm
        /\ AsResultOf(inv).kind = "Err") =>
        /\ out.kind = "Panic"
        /\ out.text = AsResultOf(inv).text

C12_Witness ==
    /\ inv.form = "assert"
    /\ inv.msg = <<>>
    /\ inv.family = "assert_some_ne"
    /\ inv.args = <<<<"Some", 1>>, <<"Some", 1>>>>
    /\ out.kind = "Panic"
    /\ Len(out.text) > 0
    /\ out.text = assert_some_ne_as_result(inv.args[1], inv.args[2]).text

C14_BagEqComparesCounts ==
    (inv.family = "assert_bag_eq2" /\ inv.form = "as_result") =>
        LET a == inv.args[1]
            b == inv.args[2]
            Occurs(c, x) == Cardinality({k \in DOMAIN c : c[k] = x})
        IN  out.kind = "Ok" <=> \A x \in Range(a) \cup Range(b) : Occurs(a, x) = Occurs(b, x)

C14_Witness ==
    /\ inv.family = "assert_bag_eq2"
    /\ inv.form = "as_result"
    /\ inv.args = <<<<1, 1>>, <<1>>>>
    /\ out.kind = "Err"

\* C15: assert_bag_superbag_as_result!(a, b) returns Ok exactly when every
\* element occurs in a at least as often as in b; an element of b that a
\* lacks gives Err.
C15_SuperbagComparesCounts ==
    (inv.family = "assert_bag_superbag" /\ inv.form = "as_result") =>
        LET a == inv.args[1]
            b == inv.args[2]
            Occurs(c, x) == Cardinality({k \in DOMAIN c : c[k] = x})
        IN  /\ out.kind = "Ok" <=>
                   \A x \in Range(a) \cup Range(b) : Occurs(a, x) >= Occurs(b, x)
            /\ (\E x \in Range(b) : x \notin Range(a)) => out.kind = "Err"

C15_Witness ==
    /\ inv.family = "assert_bag_superbag"
    /\ inv.form = "as_result"
    /\ inv.args = <<<<1, 1>>, <<2, 2>>>>
    /\ out.kind = "Err"

\* C16: whenever the result form of a bag assertion returns Err, one line of
\* its diagnostic shows the tally of the first operand and another line the
\* tally of the second, each distinct element with its number of occurrences.
C16_BagDiagnosticShowsTallies ==
    (inv.family \in {"assert_bag_eq2", "assert_bag_superbag", "assert_bag_ne"}
        /\ inv.form = "as_result" /\ out.kind = "Err") =>
        \E j, k \in DOMAIN out.segs :
            /\ j < k
            /\ out.segs[j][2] = DebugMap(Tally(inv.args[1]))
            /\ out.segs[k][2] = DebugMap(Tally(inv.args[2]))
            /\ out.text = Format(out.segs)

C16_Witness ==
    /\ inv.family = "assert_bag_ne"
    /\ inv.form = "as_result"
    /\ inv.args = <<<<1, 1>>, <<1, 1>>>>
    /\ out.kind = "Err"
    /\ out.text = "assertion failed: 'assert_bag_ne!(left, right)'\n  left: '{1: 2}',\n right: '{1: 2}'"

\* C17: the set assertions look at distinct elements only:
\* assert_set_superset_other_as_result!(a, b) returns Ok exactly when every
\* element of b occurs in a, and assertable_set_subset!(a, b) exactly when
\* every element of a occurs in b, whatever the repetitions and the order.
C17_SetsAreDeduplicated ==
    LET a == inv.args[1]
        b == inv.args[2]
        In(x, c) == \E k \in DOMAIN c : c[k] = x
    IN  /\ (inv.family = "assert_set_superset_other" /\ inv.form = "as_result") =>
               (out.kind = "Ok" <=> \A k \in DOMAIN b : In(b[k], a))
        /\ inv.family = "assertable_set_subset" =>
               (out.kind = "Ok" <=> \A k \in DOMAIN a : In(a[k], b))

C17_Witness ==
    /\ inv.family = "assert_set_superset_other"
    /\ inv.form = "as_result"
    /\ inv.args = <<<<2, 1>>, <<1, 1>>>>
    /\ out.kind = "Ok"

\* C18: when both programs ran, assert_program_args_stdout_ge2_as_result
\* returns Ok with the two byte vectors exactly when the stdout of a is
\* lexicographically greater than or equal to that of b (b is a prefix of a,
\* or a has the greater byte where they first differ); otherwise it returns
\* Err and the diagnostic shows both byte arrays.
C18_OutputComparedLexicographically ==
    (inv.family = "assert_program_args_stdout_ge2" /\ inv.form = "as_result"
        /\ ~EvalFails(inv)) =>
        LET a == inv.args[1].arg
            b == inv.args[2].arg
            Common == 1..(IF Len(a) < Len(b) THEN Len(a) ELSE Len(b))
            Ge == \/ Len(b) <= Len(a) /\ \A i \in Common : a[i] = b[i]
                  \/ \E i \in Common : a[i] > b[i] /\ \A j \in 1..(i - 1) : a[j] = b[j]
        IN  IF Ge
            THEN out.kind = "Ok" /\ out.payload = <<a, b>>
            ELSE /\ out.kind = "Err"
                 /\ \E j, k \in DOMAIN out.segs :
                        /\ j < k
                        /\ out.segs[j][2] = DebugVec(a)
                        /\ out.segs[k][2] = DebugVec(b)

C18_Witness ==
    /\ inv.family = "assert_program_args_stdout_ge2"
    /\ inv.form = "as_result"
    /\ inv.args[1].arg = <<97, 98>>
    /\ inv.args[2].arg = <<98>>
    /\ out.kind = "Err"
    /\ out.segs[Len(out.segs)] = LastLine("               b", "[98]")

\* C19: when the operands of an ordering assertion compare equal, the value
\* of an operand expression being the value the expansion binds to it, the
\* le and ge assertions succeed and the lt and gt assertions fail.
C19_EqualOperands ==
    LET x == inv.args
        Equal ==
            CASE inv.family = "assert_le" -> x[1] = x[2]
              [] inv.family = "assert_len_ge_x" -> Len(x[1]) = ValAt(x[2], 1)
              [] inv.family = "assert_fn_le2" -> f(ValAt(x[1], 1)) = g(ValAt(x[2], 1))
              [] inv.family = "assert_process_status_code_value_ge" ->
                     ~EvalFails(inv) /\ Status(x[1])[2] = Status(x[2])[2]
              [] inv.family = "assert_program_args_stderr_ge_expr" ->
                     ~EvalFails(inv) /\ Output(x[1])[2].stderr = x[2]
              [] inv.family = "assert_program_args_stdout_ge2" ->
                     ~EvalFails(inv) /\ Output(x[1])[2].stdout = Output(x[2])[2].stdout
              [] inv.family \in {"assert_fs_read_to_string_gt", "assert_fs_read_to_string_gt2"} ->
                     ~EvalFails(inv) /\ fs_read_to_string(x[1]) = fs_read_to_string(x[2])
              [] inv.family = "assert_io_read_to_string_lt2" ->
                     ~EvalFails(inv) /\ inv.rd.a = inv.rd.b
              [] OTHER -> FALSE
        Strict == {"assert_fs_read_to_string_gt", "assert_fs_read_to_string_gt2",
                   "assert_io_read_to_string_lt2"}
    IN  (Ran /\ Equal) =>
            IF inv.family \in Strict
            THEN out.kind \in {"Err", "Panic"}
            ELSE out.kind \in {"Ok", "Return"}

WithMessageArm ==
    {"assertable_set_subset", "assertable_ne", "assume_fn_err_string_ge",
     "assertable_command_stdout_eq_string"}

Assure == {"assure_bag_eq", "assure_io_eq"}

RelationHolds(i) ==
    IF i.family = "assure_bag_eq"
    THEN \A x \in Ints : Count(i.args[1], x) = Count(i.args[2], x)
    ELSE i.args[1] = i.args[2]

\* C22: an assure form never returns Err: it returns Ok(true) when the
\* relation holds and Ok(false) when it does not, and with a custom message
\* it returns what it returns without one.
C22_AssureNeverErr ==
    (inv.form = "as_result" /\ inv.family \in Assure) =>
        /\ out.kind = "Ok"
        /\ out.payload = IF RelationHolds(inv) THEN <<"true">> ELSE <<"false">>
        /\ out = Outcome(AsResultOf([inv EXCEPT !.msg = <<>>]))

C22_Witness ==
    /\ inv.form = "as_result"
    /\ inv.family = "assure_bag_eq"
    /\ inv.msg # <<>>
    /\ inv.args = <<<<1, 1>>, <<1>>>>
    /\ out.payload = <<"false">>

\* The parameter lists the head lines of the diagnostics show
ParamLists ==
    {"a", "a, b", "a_collection, b_collection", "a_bag, b_bag", "command, containee",
     "a_command, b_command", "a_command, b_expr", "a_function, a_param, b_function, b_param",
     "path, containee", "a_path, b_path", "a_reader, b_reader",
     "left_program, left_args, right_expr", "a_program, a_args, b_program, b_args",
     "left_reader, right_matcher", "left_set, right_set", "left, right",
     "fn, left, right"}

\* C23: a generated diagnostic that begins with a head line names, in that
\* line, the macro of the family that was invoked, whichever branch failed.
C23_FirstLineNamesAssertion ==
    (Ran /\ out.segs # <<>> /\ out.segs[1][1] = "assertion failed: '") =>
        out.segs[1] \in {HeadLine(inv.family \o bang \o "(" \o p \o ")") :
                            bang \in {"!", ""}, p \in ParamLists}

\* The names the label and debug lines give the operands, with their padding
OperandNames ==
    {"      path", "    a_args", "    a_param", "    b_args", "    b_param", "    left_args",
     "   command", "   left_reader", "   right_expr", "  a", "  b", "  left_set", " a",
     " a_function", " a_path", " a_program", " b", " b_function", " b_path", " b_program",
     " containee", " left_program", " right_matcher", " right_set"}

\* The lines that show a value computed from one operand
PerOperand ==
    {x \o ": '" : x \in {" a inner", " b inner", " a value", " b value", "  a code", "  b code",
                        " a status", " b status", " a.len()"}}

\* The field a segment of a diagnostic is
FieldKind(seg) ==
    CASE seg[1] = "assertion failed: '" -> "head"
      [] seg[1] = "" -> "url"
      [] seg[1] \in {n \o " label: '" : n \in OperandNames} -> "label"
      [] seg[1] \in {n \o " debug: '" : n \in OperandNames} -> "debug"
      [] OTHER -> "computed"

\* The head line is first, the link if any second, and every debug line
\* directly follows a label line.
OperandLinesInOrder(segs) ==
    /\ \A k \in DOMAIN segs : FieldKind(segs[k]) = "head" <=> k = 1
    /\ \A k \in DOMAIN segs : FieldKind(segs[k]) = "url" => k = 2
    /\ \A k \in DOMAIN segs : FieldKind(segs[k]) = "debug" => FieldKind(segs[k - 1]) = "label"

C25_MessageOnEveryFailure ==
    (inv.form = "assert" /\ inv.msg # <<>> /\ out.kind = "Panic") =>
        out.text \in {DisplayStr(inv.msg[1]), DebugStr(inv.msg[1])}

\* The invocation i without its custom message
WithoutMessage(i) ==
    IF i.form = "as_result"
    THEN AsResultOf([i EXCEPT !.msg = <<>>])
    ELSE AssertOf([i EXCEPT !.msg = <<>>])

\* The events of the log l on the operands: all but the evaluation of the message
OperandEvents(l) == SelectSeq(l, LAMBDA e : e # Eval("message"))

\* C26: a form given a custom message fails on the inputs on which it fails
\* without one, returns what it returns without one and performs the same
\* operand evaluations, runs and reads, each as many times.
C26_MessageChangesOnlyPayload ==
    (inv.form \in {"assert", "as_result"} /\ inv.msg # <<>>) =>
        LET r == WithoutMessage(inv) IN
        /\ out.kind = r.kind
        /\ out.payload = r.payload
        /\ OperandEvents(log) = r.log

\* The families with two operands whose evaluation can fail
TwoFallible ==
    {"assert_process_status_code_value_ge", "assert_command_stderr_eq2",
     "assert_program_args_stdout_ge2", "assert_fs_read_to_string_gt",
     "assert_fs_read_to_string_gt2", "assert_io_read_to_string_lt2",
     "assert_std_io_read_to_string_lt"}

\* The evaluation of the first operand of the invocation i fails.
FirstFails(i) ==
    CASE i.family = "assert_process_status_code_value_ge" -> Status(i.args[1])[1] = "Err"
      [] i.family \in {"assert_command_stderr_eq2", "assert_program_args_stdout_ge2"} ->
             Output(i.args[1])[1] = "Err"
      [] i.family \in {"assert_fs_read_to_string_gt", "assert_fs_read_to_string_gt2"} ->
             fs_read_to_string(i.args[1])[1] = "Err"
      [] i.family \in {"assert_io_read_to_string_lt2", "assert_std_io_read_to_string_lt"} ->
             read_to_string(i.rd.a).result[1] = "Err"
      [] OTHER -> FALSE

\* C27: when the evaluation of the first operand fails, the invocation runs
\* no further process and reads no further file or reader: the failed run
\* or read is the only one of the invocation.
C27_FailureSurfacedImmediately ==
    (Ran /\ inv.family \in TwoFallible /\ FirstFails(inv)) =>
        Cardinality({k \in DOMAIN log : log[k][1] \in {"run", "read"}}) = 1

\* C28: on the same collections exactly one of assert_bag_eq2_as_result and
\* assert_bag_ne_as_result returns Ok.
C28_BagEqXorNe ==
    (inv.form = "as_result" /\ inv.family \in {"assert_bag_eq2", "assert_bag_ne"}) =>
        LET eq == assert_bag_eq2_as_result(inv.args[1], inv.args[2])
            ne == assert_bag_ne_as_result(inv.args[1], inv.args[2])
        IN  /\ out.kind = (IF inv.family = "assert_bag_eq2" THEN eq.kind ELSE ne.kind)
            /\ (eq.kind = "Ok") # (ne.kind = "Ok")

C28_Witness ==
    /\ inv.form = "as_result"
    /\ inv.family = "assert_bag_ne"
    /\ inv.args = <<<<1, 2>>, <<2, 1>>>>
    /\ out.kind = "Err"
    /\ assert_bag_eq2_as_result(inv.args[1], inv.args[2]).kind = "Ok"

\* C29: assert_bag_superbag_as_result returns Ok on (a, b) and on (b, a)
\* exactly when assert_bag_eq2_as_result returns Ok on (a, b).
C29_MutualSuperbagIsEq ==
    (inv.form = "as_result" /\ inv.family \in {"assert_bag_superbag", "assert_bag_eq2"}) =>
        LET ab == assert_bag_superbag_as_result(inv.args[1], inv.args[2])
            ba == assert_bag_superbag_as_result(inv.args[2], inv.args[1])
            eq == assert_bag_eq2_as_result(inv.args[1], inv.args[2])
        IN  /\ out.kind = (IF inv.family = "assert_bag_superbag" THEN ab.kind ELSE eq.kind)
            /\ (ab.kind = "Ok" /\ ba.kind = "Ok") <=> eq.kind = "Ok"

C29_Witness ==
    /\ inv.form = "as_result"
    /\ inv.family = "assert_bag_superbag"
    /\ inv.args = <<<<1, 1>>, <<1>>>>
    /\ out.kind = "Ok"
    /\ assert_bag_superbag_as_result(inv.args[2], inv.args[1]).kind = "Err"
    /\ assert_bag_eq2_as_result(inv.args[1], inv.args[2]).kind = "Err"

\* The debug lines of the reader operand x
ReaderDebug(x) ==
    IF x = "a" THEN {" a debug: '", "  a debug: '", "   left_reader debug: '"}
    ELSE {" b debug: '", "  b debug: '"}

\* C30 as stated: after any sequence of invocations every operand is as it
\* was before the first one, the readers included.
C30_OperandsUnchanged ==
    inv # NoInv => readers = first[1].readers

\* C30 amended: an invocation consumes the readers it reads and leaves the
\* others as they were; the debug line of a reader shows the reader after
\* the read, the debug line of a value operand shows the value.
C30_ReadersAreConsumed ==
    (Ran /\ \A x \in DOMAIN inv.rd : Utf8Valid(inv.rd[x])) =>
        /\ \A x \in DOMAIN readers :
               readers[x] = IF Read(x) \in Range(log) THEN <<>> ELSE inv.rd[x]
        /\ \A x \in DOMAIN readers, k \in DOMAIN out.segs :
               out.segs[k][1] \in ReaderDebug(x) => out.segs[k][2] = DebugVec(readers[x])
        /\ (inv.family = "assert_eq" /\ out.kind = "Err") =>
               /\ out.segs[3] = Line(" a debug", ToString(inv.args[1]))
               /\ out.segs[5] = LastLine(" b debug", ToString(inv.args[2]))

C30_Witness ==
    /\ inv.family = "assert_read_to_string_matches"
    /\ inv.form = "as_result"
    /\ inv.rd.a = <<97>>
    /\ readers.a = <<>>
    /\ out.kind = "Err"
    /\ out.segs[3] = Line("   left_reader debug", "[]")

====
